---- MODULE Spec2Model ----
(***************************************************************************)
(* Spell-check orchestration of the Tiptap SpellChecker extension:         *)
(* the web worker (dictionary engine), WorkerManager (request/response     *)
(* protocol), DictionaryManager, SpellCheckerService (caches and           *)
(* de-duplication), the ProseMirror plugin (debounced scans, decorations)  *)
(* and the extension commands (toggleSpellChecker,                         *)
(* setSpellCheckerLanguage).                                               *)
(*                                                                         *)
(* The main thread is single threaded: one action is one macrotask (an     *)
(* API call, a timer, a worker message) together with all promise          *)
(* continuations (microtasks) it triggers, up to the next point where the  *)
(* code waits for the worker or for a timer.  The main-thread state is     *)
(* passed through the operators as one record m and written back by        *)
(* Commit.                                                                 *)
(***************************************************************************)
EXTENDS Integers, Sequences, FiniteSets, TLC

VARIABLES
  wm,         \* WorkerManager: worker, pendingRequests, requestCounter, timeouts
  svc,        \* SpellCheckerService: the caches and pendingChecks
  promises,   \* the promises returned to the clients of the service and of WorkerManager
  dm,         \* DictionaryManager: loadedLanguages, loadingPromises, currentLanguage
  ext,        \* extension storage/options: enabled, language, scanGeneration
  plugin,     \* plugin state: decorations, shouldRescan, generation
  view,       \* editor view: doc, scanTimeout
  scans,      \* scans whose timer fired and that await the worker
  toWorker,   \* messages posted to the worker, not yet received (FIFO)
  worker,     \* the worker thread: currentLanguage, fetches in progress
  fromWorker, \* responses posted by the worker, not yet handled (FIFO)
  last,       \* the operation performed by the last step
  history,    \* what the last step's scans did, and the requests and cache
              \* entries that the last configuration change left behind
  debounceState, \* a function made by debounce: its timeout, the timers, the calls
  replaceState,  \* replaceAllInstances: its arguments, the document, the replacements
  extractState,  \* extractWords and findAllInstances: the document and what they return
  ui             \* SpellCheckerUI: localValue, isLoading, isSwitching

vars ==
  <<last, wm, svc, promises, dm, ext, plugin, view, scans, toWorker, worker, fromWorker,
    history, debounceState, replaceState,
      extractState, ui>>

----------------------------------------------------------------------------
(* Bounds of the model *)

MaxRequests == 4           \* requests made in one behaviour
MaxLanguageRequests == 6   \* the same where dictionaries are loaded meanwhile
MaxScanRequests == 5       \* the same where checkWords is called
MaxProtocolRequests == 3   \* the same where WorkerManager is called directly
MaxCrashRequests == 3      \* the same where the worker raises errors
MaxServiceRequests == 4    \* the same where the service's requests fail
MaxCacheRequests == 5      \* the same where suggestions are asked for again
MaxRankRequests == 3       \* the same where the engine suggests any list
MaxEngineSuggestions == 6  \* longest list of suggestions of the engine
MaxEditorRequests == 5     \* the same in the editor
MaxToggleRequests == 6     \* the same where the spell checker is switched off and on
MaxGeneration == 2         \* configuration changes in one behaviour
MaxScanDocLength == 10     \* longest document where a scan meets several words
MaxScanDocRequests == 7    \* the requests of such a scan
MaxScanDocGeneration == 1  \* the toggles during such a scan
MaxDebounceCalls == 3      \* calls of a debounced function
MaxDebounceDocLength == 5  \* characters of the document where typing re-arms the timer
MaxDebounceRequests == 4   \* the requests of the scans there
MaxTypingDocLength == 4    \* characters of the document where any character is typed
MaxDeleted == 1            \* characters of the mounted document that are deleted
MaxTypingRequests == 3     \* the requests of the scans there
MaxReplaceTextLength == 5  \* characters of a paragraph where words are replaced
MaxTerminateRequests == 4  \* the requests where the worker is terminated
MaxLoadRequests == 3       \* the requests where callers load and switch concurrently
MaxSwitchCalls == 1        \* calls of DictionaryManager.switchLanguage, one after the other
MaxUIGeneration == 2       \* selections in SpellCheckerUI
MaxUIRequests == 6         \* the requests there
MaxOverlapDocLength == 3   \* characters of the document where scans overlap
MaxOverlapDeleted == 2     \* characters of the mounted document that are deleted there
MaxOverlapRequests == 5    \* the requests of the scans there
MaxExtractTextLength == 4  \* characters of a text node whose words are extracted
MaxDocLength == 4          \* characters of the document

(* the document at mount, and what is typed *)
InitialDoc == <<"a", "b", " ">>
Typed == {" "}

----------------------------------------------------------------------------
(* Constants of the program *)

MIN_WORD_LENGTH == 2
MaxSuggestions == 5
LanguageCode == {"en", "de"}
DEFAULT_LANGUAGE == "en"
DICTIONARY_RETRY_COUNT == 3
NoLanguage == "null"          \* the worker's currentLanguage before any load

----------------------------------------------------------------------------
(* Strings are sequences of one-character strings *)

LowerChar(c) == IF c = "A" THEN "a" ELSE IF c = "B" THEN "b" ELSE c

toLowerCase(w) == [i \in 1..Len(w) |-> LowerChar(w[i])]

RECURSIVE trimStart(_)
trimStart(w) == IF Len(w) > 0 /\ w[1] = " " THEN trimStart(Tail(w)) ELSE w

RECURSIVE trimEnd(_)
trimEnd(w) ==
  IF Len(w) > 0 /\ w[Len(w)] = " " THEN trimEnd(SubSeq(w, 1, Len(w) - 1)) ELSE w

trim(w) == trimEnd(trimStart(w))

Min2(a, b) == IF a <= b THEN a ELSE b

RECURSIVE calculateEditDistance(_, _)
calculateEditDistance(str1, str2) ==
  IF Len(str1) = 0 THEN Len(str2)
  ELSE IF Len(str2) = 0 THEN Len(str1)
  ELSE LET a == SubSeq(str1, 1, Len(str1) - 1)
           b == SubSeq(str2, 1, Len(str2) - 1)
       IN IF str1[Len(str1)] = str2[Len(str2)]
          THEN calculateEditDistance(a, b)
          ELSE 1 + Min2(calculateEditDistance(a, str2),
                        Min2(calculateEditDistance(str1, b),
                             calculateEditDistance(a, b)))

----------------------------------------------------------------------------
(* The dictionary engine (nspell) of the worker, for each language.         *)
(* "Ab" is a proper noun of en (as "Monday"): accepted capitalised only.    *)

W_Ab == <<"A", "b">>
W_ab == <<"a", "b">>
W_ba == <<"b", "a">>
W_bb == <<"b", "b">>

Dictionary(language) ==
  IF language = "en" THEN {W_Ab, W_ba}
  ELSE IF language = "de" THEN {W_ab}
  ELSE {}

correct(language, word) == word \in Dictionary(language)

suggest(language, word) ==
  IF language = "en" /\ word = W_ab THEN <<W_ba, W_Ab, W_ba>>
  ELSE IF language = "en" /\ word = W_bb THEN <<W_ba>>
  ELSE IF language = "de" /\ word = W_ba THEN <<W_ab>>
  ELSE <<>>

(* checkWord of the worker without the lowercase fallback *)
worker_checkWord_exact(language, word) ==
  LET trimmed == trim(word)
  IN IF Len(trimmed) < 2 THEN TRUE ELSE correct(language, trimmed)

(* worker: checkWord(word) with the dictionary of `language` loaded *)
worker_checkWord(language, word) ==
  LET trimmed == trim(word)
      lowercase == toLowerCase(trimmed)
  IN IF Len(trimmed) < 2 THEN TRUE
     ELSE IF correct(language, trimmed) THEN TRUE
     ELSE IF lowercase # trimmed THEN correct(language, lowercase)
     ELSE FALSE

(* worker: getSuggestions(word) *)
worker_getSuggestions(language, word) ==
  LET trimmed == trim(word)
      lowercase == toLowerCase(trimmed)
      suggestions == suggest(language, trimmed)
  IN IF Len(suggestions) = 0 /\ lowercase # trimmed
     THEN suggest(language, lowercase)
     ELSE suggestions

Range(s) == {s[i] : i \in 1..Len(s)}

(* worker: the CHECK_WORDS case, results[word] = checkWord(word) *)
worker_checkWords(language, words) ==
  [w \in Range(words) |-> worker_checkWord(language, w)]

----------------------------------------------------------------------------
(* The main-thread state as one record, and its write-back *)

Main ==
  [wm |-> wm, svc |-> svc, promises |-> promises, dm |-> dm, ext |-> ext, plugin |-> plugin,
   view |-> view, scans |-> scans, toWorker |-> toWorker, last |-> last,
   history |-> [history EXCEPT !.scanned = {}, !.switched = {}, !.ranked = {},
                               !.asked = <<>>],
   ui |-> ui, microtasks |-> <<>>]

Commit(m) ==
  /\ wm' = m.wm
  /\ svc' = m.svc
  /\ promises' = m.promises
  /\ dm' = m.dm
  /\ ext' = m.ext
  /\ plugin' = m.plugin
  /\ view' = m.view
  /\ scans' = m.scans
  /\ toWorker' = m.toWorker
  /\ last' = m.last
  /\ history' = m.history
  /\ ui' = m.ui
  /\ UNCHANGED <<debounceState, replaceState,
      extractState>>

Label(op, language, word, ret, value) ==
  [op |-> op, language |-> language, word |-> word, ret |-> ret, value |-> value]

(* steps of the worker, responses and timers carry no label *)
Internal == Label("", "null", <<>>, 0, "")

Without(f, k) == [x \in DOMAIN f \ {k} |-> f[x]]

----------------------------------------------------------------------------
(* WorkerManager *)

(* sendMessage: ensureWorker, a new correlation id, the timeout, the pending *)
(* entry, postMessage.  cont is what awaits the returned promise.            *)
sendMessage(m, type, data, cont) ==
  LET requestId == m.wm.requestCounter + 1
  IN [m EXCEPT
        !.wm.worker = "live",
        !.wm.requestCounter = requestId,
        !.wm.pendingRequests =
            @ @@ (requestId :> [type |-> type, data |-> data, cont |-> cont]),
        !.wm.timeouts = @ \cup {requestId},
        !.toWorker = Append(@, [type |-> type, requestId |-> requestId, data |-> data])]

getCurrentLanguage(m, cont) == sendMessage(m, "GET_CURRENT_LANGUAGE", <<>>, cont)

(* checkWord, checkWords and getSuggestions of WorkerManager share their     *)
(* shape: with an expectedLanguage, first await getCurrentLanguage.          *)
VerifyLanguage(type, data, expectedLanguage, cont) ==
  [k |-> "verifyLanguage", type |-> type, data |-> data,
   expectedLanguage |-> expectedLanguage, up |-> cont]

WorkerManager_checkWord(m, word, expectedLanguage, cont) ==
  IF expectedLanguage # NoLanguage
  THEN getCurrentLanguage(m, VerifyLanguage("CHECK_WORD", word, expectedLanguage, cont))
  ELSE sendMessage(m, "CHECK_WORD", word, cont)

WorkerManager_checkWords(m, words, expectedLanguage, cont) ==
  IF expectedLanguage # NoLanguage
  THEN getCurrentLanguage(m, VerifyLanguage("CHECK_WORDS", words, expectedLanguage, cont))
  ELSE sendMessage(m, "CHECK_WORDS", words, cont)

WorkerManager_getSuggestions(m, word, expectedLanguage, cont) ==
  IF expectedLanguage # NoLanguage
  THEN getCurrentLanguage(m, VerifyLanguage("GET_SUGGESTIONS", word, expectedLanguage, cont))
  ELSE sendMessage(m, "GET_SUGGESTIONS", word, cont)

WorkerManager_loadDictionary(m, language, cont) ==
  sendMessage(m, "LOAD_DICTIONARY", language, cont)

----------------------------------------------------------------------------
(* SpellCheckerService: what runs when the worker request behind a call      *)
(* settles                                                                   *)

Caller(pid) == [k |-> "caller", promise |-> pid]

(* a boolean as the value of a promise *)
BoolText(b) == IF b THEN "true" ELSE "false"

(* the promise handed to a caller settles: value holds a boolean, a language *)
(* or a rejection's message, result the map of checkWords or the list of     *)
(* getSuggestions                                                            *)
ResolveCaller(m, cont, ok, data) ==
  LET op == m.promises[cont.promise].op
  IN [m EXCEPT !.promises[cont.promise] =
        IF ~ok THEN [@ EXCEPT !.state = "rejected", !.value = data]
        ELSE IF op \in {"checkWords", "getSuggestions"}
             THEN [@ EXCEPT !.state = "resolved", !.result = data]
        ELSE IF op = "CHECK_WORD"
             THEN [@ EXCEPT !.state = "resolved", !.value = BoolText(data)]
        ELSE [@ EXCEPT !.state = "resolved", !.value = data]]

(* CacheResult without its effect *)
CacheResult_dropped(caches, language, normalized, isCorrect) == caches

(* CacheResult with one set per kind for all the languages *)
CacheResult_shared(caches, language, normalized, isCorrect) ==
  IF isCorrect
  THEN [caches EXCEPT !.correctWordsCache = [l \in LanguageCode |-> @[l] \cup {normalized}]]
  ELSE [caches EXCEPT !.misspelledWordsCache = [l \in LanguageCode |-> @[l] \cup {normalized}]]

(* language-specific cache update of checkWord's .then and of checkWords *)
CacheResult(caches, language, normalized, isCorrect) ==
  IF isCorrect
  THEN [caches EXCEPT !.correctWordsCache[language] = @ \cup {normalized}]
  ELSE [caches EXCEPT !.misspelledWordsCache[language] = @ \cup {normalized}]

(* checkWord: .then(isCorrect => ...) and .catch(() => ...) of checkPromise. *)
(* correctCache and misspelledCache are the Set objects captured when the    *)
(* call was made: after a clearCache they are no longer the sets of the      *)
(* maps (orphan), and what is added to them is never looked up.              *)
checkWord_settled(m, cont, ok, data) ==
  LET p == m.promises[cont.promise]
      cacheKey == <<cont.language, cont.cacheKeyWord>>
      cached == IF ok /\ ~p.orphan
                THEN CacheResult(m.svc, cont.language, cont.cacheKeyWord, data)
                ELSE m.svc
  IN [m EXCEPT
        !.svc = [cached EXCEPT !.pendingChecks = Without(@, cacheKey)],
        !.promises[cont.promise] =
           [@ EXCEPT !.state = "resolved",
                     !.value = BoolText(IF ok THEN data ELSE TRUE),
                     !.fromWorker = ok]]

RECURSIVE CacheResults(_, _, _, _)
CacheResults(caches, language, results, todo) ==
  IF todo = {} THEN caches
  ELSE LET word == CHOOSE w \in todo : TRUE
       IN CacheResults(
            CacheResult(caches, language, trim(toLowerCase(word)), results[word]),
            language, results, todo \ {word})

(* a sort by distance that puts an item before the items as far as it *)
RECURSIVE sortByDistance_unstable(_)
sortByDistance_unstable(items) ==
  IF Len(items) <= 1 THEN items
  ELSE LET x == items[Len(items)]
           front == sortByDistance_unstable(SubSeq(items, 1, Len(items) - 1))
           n == Cardinality({i \in 1..Len(front) : front[i].distance < x.distance})
       IN SubSeq(front, 1, n) \o <<x>> \o SubSeq(front, n + 1, Len(front))

(* stable sort by distance: insert each item after the items not farther *)
RECURSIVE sortByDistance(_)
sortByDistance(items) ==
  IF Len(items) <= 1 THEN items
  ELSE LET x == items[Len(items)]
           front == sortByDistance(SubSeq(items, 1, Len(items) - 1))
           n == Cardinality({i \in 1..Len(front) : front[i].distance <= x.distance})
       IN SubSeq(front, 1, n) \o <<x>> \o SubSeq(front, n + 1, Len(front))

RECURSIVE selectTop(_, _)
selectTop(ranked, top) ==
  IF Len(ranked) = 0 \/ Len(top) >= MaxSuggestions THEN top
  ELSE selectTop(Tail(ranked),
                 IF Head(ranked).suggestion \in Range(top) THEN top
                 ELSE Append(top, Head(ranked).suggestion))

rankSuggestions(cacheKeyWord, allSuggestions) ==
  LET rankedSuggestions ==
        [i \in 1..Len(allSuggestions) |->
           [suggestion |-> allSuggestions[i],
            distance |-> calculateEditDistance(cacheKeyWord, toLowerCase(allSuggestions[i]))]]
  IN selectTop(sortByDistance(rankedSuggestions), <<>>)

RECURSIVE Settle(_, _, _, _)

(* checkWords without its catch: the rejection reaches the caller *)
checkWords_settled_thrown(m, cont, ok, data) ==
  IF ok
  THEN Settle([m EXCEPT !.svc = CacheResults(@, cont.language, data, DOMAIN data)],
              cont.up, TRUE, data)
  ELSE Settle(m, cont.up, FALSE, data)

(* checkWords: after await workerManager.checkWords, and its catch *)
checkWords_settled(m, cont, ok, data) ==
  IF ok
  THEN Settle([m EXCEPT !.svc = CacheResults(@, cont.language, data, DOMAIN data)],
              cont.up, TRUE, data)
  ELSE Settle(m, cont.up, TRUE, [w \in Range(cont.words) |-> TRUE])

(* getSuggestions: after await workerManager.getSuggestions, and its catch *)
getSuggestions_settled(m, cont, ok, data) ==
  IF ~ok \/ Len(data) = 0 THEN Settle(m, cont.up, TRUE, <<>>)
  ELSE LET topSuggestions == rankSuggestions(cont.cacheKeyWord, data)
       IN Settle([m EXCEPT !.svc.suggestionsCache =
                     (<<cont.language, cont.cacheKeyWord>> :> topSuggestions) @@ @],
                 cont.up, TRUE, topSuggestions)

(* WorkerManager.checkWord/checkWords/getSuggestions after getCurrentLanguage *)
(* what getSuggestions made of the list of the worker, for the properties: *)
(* the list its caller received, and that the call for this language and   *)
(* word has resolved from a successful response                            *)
Suggested(m, cont, ok, data, after) ==
  IF ~ok \/ cont.up.k # "caller" THEN after
  ELSE [after EXCEPT
          !.history.ranked = @ \cup
             {[language |-> cont.language, word |-> cont.cacheKeyWord,
               allSuggestions |-> data,
               topSuggestions |-> after.promises[cont.up.promise].result]},
          !.history.suggested = @ \cup {<<cont.language, cont.cacheKeyWord>>}]

verifyLanguage_settled(m, cont, ok, data) ==
  IF ~ok THEN Settle(m, cont.up, FALSE, data)
  ELSE IF data # cont.expectedLanguage THEN Settle(m, cont.up, FALSE, "Language mismatch")
  ELSE sendMessage(m, cont.type, cont.data, cont.up)

----------------------------------------------------------------------------
(* SpellCheckerService: the calls *)

NewPromise(op, language, word) ==
  [op |-> op, language |-> language, word |-> word, state |-> "pending",
   value |-> "", result |-> <<>>, orphan |-> FALSE, cleared |-> FALSE,
   fromWorker |-> FALSE]

SpellCheckerService_checkWord(m, word, language) ==
  LET trimmed == trim(word)
      cacheKeyWord == toLowerCase(trimmed)
      cacheKey == <<language, cacheKeyWord>>
      pid == m.wm.requestCounter + 1
      returns(ret, value) ==
        [m EXCEPT !.last = Label("checkWord", language, cacheKeyWord, ret, value)]
  IN IF Len(trimmed) < MIN_WORD_LENGTH THEN returns(0, "true")
     ELSE IF cacheKeyWord \in m.svc.correctWordsCache[language] THEN returns(0, "true")
     ELSE IF cacheKeyWord \in m.svc.misspelledWordsCache[language] THEN returns(0, "false")
     ELSE IF cacheKey \in DOMAIN m.svc.pendingChecks
          THEN returns(m.svc.pendingChecks[cacheKey], "pending")
     ELSE LET sent == WorkerManager_checkWord(m, trimmed, language,
                        [k |-> "checkWord", language |-> language,
                         cacheKeyWord |-> cacheKeyWord, promise |-> pid])
          IN [sent EXCEPT
                !.svc.pendingChecks = @ @@ (cacheKey :> pid),
                !.promises = @ @@ (pid :> NewPromise("checkWord", language, cacheKeyWord)),
                !.last = Label("checkWord", language, cacheKeyWord, pid, "sent")]

(* checkWords(words, language); cont awaits the returned promise *)
SpellCheckerService_checkWords(m, words, language, cont) ==
  WorkerManager_checkWords(m, words, language,
     [k |-> "checkWords", words |-> words, language |-> language, up |-> cont])

(* getSuggestions(word, language); cont awaits the returned promise *)
SpellCheckerService_getSuggestions(m, word, language, cont) ==
  LET trimmed == trim(word)
      cacheKeyWord == toLowerCase(trimmed)
      cacheKey == <<language, cacheKeyWord>>
  IN IF cacheKey \in DOMAIN m.svc.suggestionsCache
     THEN Settle(m, cont, TRUE, m.svc.suggestionsCache[cacheKey])
     ELSE WorkerManager_getSuggestions(m, trimmed, language,
             [k |-> "getSuggestions", language |-> language,
              cacheKeyWord |-> cacheKeyWord, up |-> cont])

(* clearCache that clears nothing *)
clearCache_kept(m) == m

(* clearCache: the four maps are cleared; the sets that pending checkWord    *)
(* calls captured are orphaned.  For a promise that has resolved, cleared    *)
(* records that clearCache was called since.                                 *)
clearCache(m) ==
  [m EXCEPT
     !.svc = [correctWordsCache |-> [l \in LanguageCode |-> {}],
              misspelledWordsCache |-> [l \in LanguageCode |-> {}],
              suggestionsCache |-> <<>>,
              pendingChecks |-> <<>>],
     !.promises = [p \in DOMAIN @ |->
         IF @[p].state = "pending" THEN [@[p] EXCEPT !.orphan = TRUE]
         ELSE [@[p] EXCEPT !.cleared = TRUE]]]

----------------------------------------------------------------------------
(* WorkerManager: settling requests *)

Ids(m) == DOMAIN m.wm.pendingRequests

RECURSIVE SeqOfSet(_)
SeqOfSet(ids) ==
  IF ids = {} THEN <<>>
  ELSE LET lo == CHOOSE i \in ids : \A j \in ids : i <= j
       IN <<lo>> \o SeqOfSet(ids \ {lo})

(* cancelAllPendingRequests that cancels nothing *)
cancelAllPendingRequests_skipped(m) == m

(* cancelAllPendingRequests without pendingRequests.clear() *)
cancelAllPendingRequests_kept(m) ==
  [m EXCEPT !.microtasks = @ \o [n \in 1..Len(SeqOfSet(Ids(m))) |->
       [cont |-> m.wm.pendingRequests[SeqOfSet(Ids(m))[n]].cont, ok |-> FALSE,
        data |-> "Request cancelled"]]]

(* every pending entry, in the order of the Map (the order of insertion):    *)
(* clearTimeout, reject(reason); then pendingRequests.clear().  The          *)
(* rejections' reactions are microtasks: they run after the caller's         *)
(* synchronous code.                                                         *)
RejectAll(m, reason) ==
  LET order == SeqOfSet(Ids(m))
  IN [m EXCEPT
        !.wm.timeouts = @ \ Ids(m),
        !.wm.pendingRequests = <<>>,
        !.microtasks = @ \o [n \in 1..Len(order) |->
             [cont |-> m.wm.pendingRequests[order[n]].cont, ok |-> FALSE, data |-> reason]]]

cancelAllPendingRequests(m) == RejectAll(m, "Request cancelled")

(* handleError, the onerror of the worker: every pending entry is rejected,  *)
(* the table is cleared; this.worker is left as it is                        *)
handleError(m) == RejectAll(m, "Worker error")

(* terminate() that leaves this.worker as it is *)
terminate_kept(m) ==
  IF m.wm.worker = "none" THEN m
  ELSE [RejectAll(m, "Worker terminated") EXCEPT !.toWorker = <<>>]

(* terminate(): with a worker, rejects and clears the pending requests,     *)
(* terminates the worker, which discards the messages posted to it, and     *)
(* sets this.worker to null                                                 *)
terminate(m) ==
  IF m.wm.worker = "none" THEN m
  ELSE [RejectAll(m, "Worker terminated") EXCEPT !.wm.worker = "none", !.toWorker = <<>>]

(* the worker that new Worker('/spellcheck-worker.js') starts *)
NewWorker == [currentLanguage |-> NoLanguage, fetches |-> {}]

isReady(m) == m.wm.worker # "none"

----------------------------------------------------------------------------
(* DictionaryManager *)

(* loadDictionary(language), its promise not awaited by the caller: nothing  *)
(* to do if loaded or loading, else _loadDictionary                          *)
DictionaryManager_loadDictionary(m, language) ==
  IF language \in m.dm.loadedLanguages \/ language \in m.dm.loadingPromises THEN m
  ELSE WorkerManager_loadDictionary(
         [m EXCEPT !.dm.loadingPromises = @ \cup {language}],
         language, [k |-> "loadDictionary", language |-> language])

(* loadDictionary after await loadPromise: try, catch and finally *)
loadDictionary_settled(m, cont, ok, data) ==
  [m EXCEPT !.dm.loadedLanguages = IF ok THEN @ \cup {cont.language} ELSE @,
            !.dm.loadingPromises = @ \ {cont.language}]

(* switchLanguage(language) up to its first await; up awaits its promise *)
switchLanguage(m, language, up) ==
  getCurrentLanguage(m, [k |-> "switchLanguage", language |-> language, up |-> up])

(* switchLanguage after the first getCurrentLanguage *)
switchLanguage_settled(m, cont, ok, data) ==
  IF ok /\ data = cont.language
  THEN Settle([m EXCEPT !.dm.currentLanguage = cont.language], cont.up, TRUE, "")
  ELSE WorkerManager_loadDictionary(m, cont.language,
         [k |-> "switchLoaded", language |-> cont.language, up |-> cont.up])

(* the verification of the retry loop *)
(* history.queried counts, for the call behind a caller's promise, the     *)
(* getCurrentLanguage requests of its retry loop                            *)
Queried(m, up) ==
  IF up.k # "caller" THEN m
  ELSE [m EXCEPT !.history.queried =
          IF up.promise \in DOMAIN @
          THEN [@ EXCEPT ![up.promise] = @ + 1]
          ELSE @ @@ (up.promise :> 1)]

switchVerify(m, language, retries, up) ==
  getCurrentLanguage(Queried(m, up), [k |-> "switchVerify", language |-> language,
                                      retries |-> retries, up |-> up])

(* switchLanguage after await this._loadDictionary(language) *)
switchLoaded_settled(m, cont, ok, data) ==
  IF ~ok THEN Settle(m, cont.up, FALSE, "Failed to load dictionary")
  ELSE switchVerify(m, cont.language, DICTIONARY_RETRY_COUNT, cont.up)

(* the retry loop after getCurrentLanguage: return, or wait to retry *)
switchVerify_settled(m, cont, ok, data) ==
  IF ok /\ data = cont.language
  THEN Settle([m EXCEPT !.dm.currentLanguage = cont.language,
                        !.dm.loadedLanguages = @ \cup {cont.language}],
              cont.up, TRUE, "")
  ELSE [m EXCEPT !.dm.retryTimers = @ \cup
          {[language |-> cont.language, retries |-> cont.retries, up |-> cont.up]}]

(* the retry loop after the wait: retries--, the loop's test, its exit *)
(* switchLanguage throwing after the last failed attempt *)
switchRetry_throwing(m, timer) ==
  LET waited == [m EXCEPT !.dm.retryTimers = @ \ {timer}]
  IN IF timer.retries - 1 > 0
     THEN switchVerify(waited, timer.language, timer.retries - 1, timer.up)
     ELSE Settle(waited, timer.up, FALSE, "Failed to verify language")

switchRetry(m, timer) ==
  LET waited == [m EXCEPT !.dm.retryTimers = @ \ {timer}]
  IN IF timer.retries - 1 > 0
     THEN switchVerify(waited, timer.language, timer.retries - 1, timer.up)
     ELSE Settle([waited EXCEPT !.dm.currentLanguage = timer.language],
                 timer.up, TRUE, "")

----------------------------------------------------------------------------
(* The text of the document: one paragraph, a sequence of characters *)

IsWordChar(c) == c \in {"a", "b", "A", "B"}
(* hasTrailingBoundary of extractWords: whitespace, punctuation, a closing *)
(* bracket or a quote                                                     *)
IsBoundary(c) == c \in {" ", ".", ")", "'"}
(* isWordBoundary of the plugin view's update: whitespace or punctuation *)
isWordBoundary(c) == c \in {" ", "."}

(* where the word that starts at index i ends *)
RECURSIVE WordEnd(_, _)
WordEnd(text, i) ==
  IF i < Len(text) /\ IsWordChar(text[i + 1]) THEN WordEnd(text, i + 1) ELSE i

(* \w, \d and [\w'-] of the regular expressions, over the characters of  *)
(* the documents                                                          *)
WordChar(c) == c \in {"a", "b", "A", "B", "1", "_"}
IsDigit(c) == c = "1"
TokenChar(c) == WordChar(c) \/ c \in {"'", "-"}

(* replace(/^[^\w']+/, '') *)
RECURSIVE stripStart(_)
stripStart(w) ==
  IF Len(w) > 0 /\ ~(WordChar(Head(w)) \/ Head(w) = "'") THEN stripStart(Tail(w)) ELSE w

(* replace(/[^\w']+$/, '') *)
RECURSIVE stripEnd(_)
stripEnd(w) ==
  IF Len(w) > 0 /\ ~(WordChar(w[Len(w)]) \/ w[Len(w)] = "'")
  THEN stripEnd(SubSeq(w, 1, Len(w) - 1)) ELSE w

(* normalizeWord: lowercase, without the punctuation at its ends *)
normalizeWord(word) == stripEnd(stripStart(toLowerCase(word)))

(* shouldCheckWord: not shorter than 2 characters, not purely numeric *)
shouldCheckWord(word) ==
  LET normalized == normalizeWord(word)
  IN /\ Len(normalized) >= MIN_WORD_LENGTH
     /\ ~(\A i \in 1..Len(normalized) : IsDigit(normalized[i]))

(* extractWords: the words that are followed by a boundary, in text order *)
extractWords(doc) ==
  LET starts == {i \in 1..Len(doc) :
                   IsWordChar(doc[i]) /\ (i = 1 \/ ~IsWordChar(doc[i - 1]))}
      complete == {i \in starts :
                     /\ WordEnd(doc, i) < Len(doc)
                     /\ IsBoundary(doc[WordEnd(doc, i) + 1])
                     /\ shouldCheckWord(SubSeq(doc, i, WordEnd(doc, i)))}
      order == SeqOfSet(complete)
  IN [n \in 1..Len(order) |->
        [word |-> SubSeq(doc, order[n], WordEnd(doc, order[n])),
         from |-> order[n], to |-> WordEnd(doc, order[n]) + 1]]

----------------------------------------------------------------------------
(* The document as ProseMirror nodes: a sequence of block nodes, each with  *)
(* text nodes as content; a text node has its marks. A block node at        *)
(* position pos has its content from pos + 1 on and its size is that of its *)
(* content plus 2.                                                          *)

Text(text, marks) == [type |-> "text", text |-> text, marks |-> marks]
Block(type, content) == [type |-> type, content |-> content]

(* the skip test of the callbacks of extractWords and findAllInstances:     *)
(* node.type.name === 'codeBlock' || node.type.name === 'code'              *)
SkippedNode(node) == node.type \in {"codeBlock", "code"}

RECURSIVE contentSize(_)
contentSize(content) ==
  IF content = <<>> THEN 0 ELSE Len(Head(content).text) + contentSize(Tail(content))

RECURSIVE inlineNodes(_, _)
inlineNodes(content, pos) ==
  IF content = <<>> THEN <<>>
  ELSE <<[node |-> Head(content), pos |-> pos]>>
         \o inlineNodes(Tail(content), pos + Len(Head(content).text))

(* doc.descendants with that callback: the text nodes that are processed,   *)
(* with their positions; the content of a skipped node is not visited       *)
RECURSIVE descendants(_, _)
descendants(blocks, pos) ==
  IF blocks = <<>> THEN <<>>
  ELSE LET block == Head(blocks)
           visited == IF SkippedNode(block) THEN <<>>
                      ELSE SelectSeq(inlineNodes(block.content, pos + 1),
                                     LAMBDA v : ~SkippedNode(v.node))
       IN visited \o descendants(Tail(blocks), pos + contentSize(block.content) + 2)

(* \b between text[k] and text[k + 1] *)
WordBoundaryAt(text, k) ==
  (k >= 1 /\ WordChar(text[k])) # (k < Len(text) /\ WordChar(text[k + 1]))

(* where a match of \b[\w'-]+\b that starts at text[s] can end *)
MatchEnds(text, s) ==
  {e \in s..Len(text) :
     (\A k \in s..e : TokenChar(text[k])) /\ WordBoundaryAt(text, e)}

(* the loop over wordBoundaryRegex.exec(text): the matches from lastIndex   *)
(* on, each the leftmost start and the longest end                          *)
RECURSIVE execAll(_, _)
execAll(text, lastIndex) ==
  LET starts == {t \in (lastIndex + 1)..Len(text) :
                   WordBoundaryAt(text, t - 1) /\ MatchEnds(text, t) # {}}
  IN IF starts = {} THEN <<>>
     ELSE LET t == CHOOSE x \in starts : \A y \in starts : x <= y
              e == CHOOSE x \in MatchEnds(text, t) : \A y \in MatchEnds(text, t) : y <= x
          IN <<[index |-> t - 1, word |-> SubSeq(text, t, e)]>> \o execAll(text, e)

(* hasTrailingBoundary that takes the end of the text for a boundary *)
hasTrailingBoundary_atEnd(text, indexAfterWord) ==
  indexAfterWord >= Len(text) \/ IsBoundary(text[indexAfterWord + 1])

(* hasTrailingBoundary: text[indexAfterWord] exists and is a boundary *)
hasTrailingBoundary(text, indexAfterWord) ==
  indexAfterWord < Len(text) /\ IsBoundary(text[indexAfterWord + 1])

RECURSIVE Flatten(_)
Flatten(seqs) == IF seqs = <<>> THEN <<>> ELSE Head(seqs) \o Flatten(Tail(seqs))

(* extractWords on the nodes of a document *)
extractWordsOfNodes(doc) ==
  LET wordsOf(v) ==
        LET text == v.node.text
            kept == SelectSeq(execAll(text, 0),
                      LAMBDA match :
                        /\ shouldCheckWord(match.word)
                        /\ hasTrailingBoundary(text, match.index + Len(match.word)))
        IN [n \in 1..Len(kept) |->
              [word |-> stripEnd(stripStart(kept[n].word)),
               from |-> v.pos + kept[n].index,
               to |-> v.pos + kept[n].index + Len(kept[n].word)]]
      visited == descendants(doc, 0)
  IN Flatten([n \in 1..Len(visited) |-> wordsOf(visited[n])])

(* findAllInstances on the nodes of a document *)
findAllInstancesOfNodes(doc, targetWord) ==
  LET normalizedTarget == normalizeWord(targetWord)
      instancesOf(v) ==
        LET found == SelectSeq(execAll(v.node.text, 0),
                       LAMBDA match : normalizeWord(match.word) = normalizedTarget)
        IN [n \in 1..Len(found) |->
              [word |-> normalizedTarget,
               from |-> v.pos + found[n].index,
               to |-> v.pos + found[n].index + Len(found[n].word)]]
      visited == descendants(doc, 0)
  IN Flatten([n \in 1..Len(visited) |-> instancesOf(visited[n])])

----------------------------------------------------------------------------
(* The plugin *)

(* the callbacks the extension hands to the plugin *)
getEnabled(m) == m.ext.enabled
getLanguage(m) == m.ext.language
getScanGeneration_fixed(m) == Min2(m.ext.scanGeneration, 0)
getScanGeneration(m) == m.ext.scanGeneration

NoGeneration == -1     \* a transaction without the spellcheck-generation meta

(* a transaction: the document after it, how it changed the text, and the    *)
(* spellcheck-* metas                                                        *)
Transaction(doc, edit, update, decorations, generation, trigger) ==
  [doc |-> doc, edit |-> edit, update |-> update, decorations |-> decorations,
   generation |-> generation, trigger |-> trigger]

(* value.decorations.map(tr.mapping, tr.doc): typing at the end moves        *)
(* nothing, deleting the last character (the one at position at) shortens    *)
(* what reached beyond it and drops what becomes empty                       *)
mapDecorations(decorations, edit, at) ==
  IF edit # "delete" THEN decorations
  ELSE LET mapPos(x) == IF x > at THEN x - 1 ELSE x
           mapped == {[d EXCEPT !.from = mapPos(d.from), !.to = mapPos(d.to)] :
                        d \in decorations}
       IN {d \in mapped : d.from < d.to}

(* state.apply *)
apply(m, tr) ==
  LET currentGeneration == getScanGeneration(m)
      mapped == mapDecorations(m.plugin.decorations, tr.edit, Len(m.view.doc))
      accepted == /\ tr.update
                  /\ (tr.generation = NoGeneration \/ tr.generation = currentGeneration)
  IN IF ~getEnabled(m)
     THEN [m EXCEPT !.plugin = [decorations |-> {}, shouldRescan |-> FALSE,
                                generation |-> currentGeneration]]
     ELSE [m EXCEPT !.plugin = [decorations |-> IF accepted THEN tr.decorations ELSE mapped,
                                shouldRescan |-> tr.trigger,
                                generation |-> currentGeneration]]

(* props.decorations: what the view shows *)
props_decorations(m) == IF ~getEnabled(m) THEN {} ELSE m.plugin.decorations

(* scheduleScan: the timer is replaced; the new one captures generation and  *)
(* language                                                                  *)
(* scheduleScan without its clearTimeout: the pending timer stays armed *)
scheduleScan_kept(m) ==
  IF ~getEnabled(m) THEN m
  ELSE [m EXCEPT !.view.scanTimeout =
          Append(@, [scanGeneration |-> getScanGeneration(m),
                     scanLanguage |-> getLanguage(m)])]

(* scheduleScan: clearTimeout of the pending timer, then, when enabled, a *)
(* timer with the generation and the language of this moment             *)
scheduleScan(m) ==
  IF ~getEnabled(m) THEN [m EXCEPT !.view.scanTimeout = <<>>]
  ELSE [m EXCEPT !.view.scanTimeout =
          <<[scanGeneration |-> getScanGeneration(m), scanLanguage |-> getLanguage(m)]>>]

(* update(view, prevState) of the plugin view, after every transaction *)
update(m, edit, prevLength) ==
  IF ~getEnabled(m) THEN [m EXCEPT !.view.scanTimeout = <<>>]
  ELSE IF m.plugin.shouldRescan THEN scheduleScan(m)
  ELSE IF edit = "none" THEN m
  ELSE IF Len(m.view.doc) > prevLength
       THEN IF isWordBoundary(m.view.doc[Len(m.view.doc)]) THEN scheduleScan(m) ELSE m
       ELSE scheduleScan(m)

(* view.dispatch(tr): the new state, then the plugin views *)
dispatch(m, tr) ==
  update([apply(m, tr) EXCEPT !.view.doc = tr.doc], tr.edit, Len(m.view.doc))

(* what a scan did when it ended: the generation and language it captured,   *)
(* the await it had reached and the decorations it had computed, the         *)
(* generation and language of the extension at that moment, and the          *)
(* decorations of the plugin before and after                                *)
Scanned(m, scan, stage, found, outcome, after) ==
  [after EXCEPT !.history.scanned = @ \cup
     {[scanGeneration |-> scan.scanGeneration, scanLanguage |-> scan.scanLanguage,
       stage |-> stage, found |-> found, outcome |-> outcome,
       words |-> scan.words, checkResults |-> scan.checkResults,
       misspelled |-> scan.misspelled, suggestions |-> scan.suggestions,
       enabled |-> m.ext.enabled, size |-> Len(scan.doc), currentSize |-> Len(m.view.doc),
       generation |-> m.ext.scanGeneration, language |-> m.ext.language,
       before |-> m.plugin.decorations, after |-> after.plugin.decorations]},
     !.history.committed = IF outcome = "committed" /\ @.tracking
                           THEN [@ EXCEPT !.id = scan.id] ELSE @]

(* the timer callback without the comparison of the document sizes *)
scanDone_anysize(m, scan, stage, newDecorations) ==
  LET ended == [m EXCEPT !.scans = Without(@, scan.id)]
      did(outcome, after) == Scanned(ended, scan, stage, newDecorations, outcome, after)
  IN IF getScanGeneration(m) # scan.scanGeneration THEN did("stale", ended)
     ELSE IF ~getEnabled(m) THEN did("disabled", ended)
     ELSE did("committed",
              dispatch(ended, Transaction(m.view.doc, "none", TRUE, newDecorations,
                                          scan.scanGeneration, FALSE)))

(* the timer callback after await scanDocument: the checks, then the        *)
(* decorations are dispatched with the scan's generation                     *)
scanDone(m, scan, stage, newDecorations) ==
  LET ended == [m EXCEPT !.scans = Without(@, scan.id)]
      did(outcome, after) == Scanned(ended, scan, stage, newDecorations, outcome, after)
  IN IF getScanGeneration(m) # scan.scanGeneration THEN did("stale", ended)
     ELSE IF ~getEnabled(m) THEN did("disabled", ended)
     ELSE IF Len(m.view.doc) # Len(scan.doc) THEN did("document changed", ended)
     ELSE did("committed",
              dispatch(ended, Transaction(m.view.doc, "none", TRUE, newDecorations,
                                          scan.scanGeneration, FALSE)))

(* scanDocument with a decoration for every misspelled word *)
scanSuggested_all(m, cont, ok, data) ==
  LET got == [m EXCEPT !.scans[cont.scan].suggestions = @ @@ (cont.index :> data)]
      scan == got.scans[cont.scan]
  IN IF DOMAIN scan.suggestions # 1..Len(scan.misspelled) THEN got
     ELSE scanDone(got, scan, "suggestions",
            IF ~getEnabled(got) THEN {}
            ELSE {[from |-> scan.misspelled[i].from, to |-> scan.misspelled[i].to,
                   word |-> scan.misspelled[i].word] : i \in 1..Len(scan.misspelled)})

(* scanDocument after one getSuggestions, and after Promise.all: a           *)
(* decoration for each misspelled word that has suggestions                  *)
scanSuggested(m, cont, ok, data) ==
  LET got == [m EXCEPT !.scans[cont.scan].suggestions = @ @@ (cont.index :> data)]
      scan == got.scans[cont.scan]
      highlighted == {i \in 1..Len(scan.misspelled) : Len(scan.suggestions[i]) > 0}
  IN IF DOMAIN scan.suggestions # 1..Len(scan.misspelled) THEN got
     ELSE scanDone(got, scan, "suggestions",
            IF ~getEnabled(got) THEN {}
            ELSE {[from |-> scan.misspelled[i].from, to |-> scan.misspelled[i].to,
                   word |-> scan.misspelled[i].word] : i \in highlighted})

(* the getSuggestions calls of scanDocument, one for each misspelled word *)
RECURSIVE fetchSuggestions(_, _, _, _)
fetchSuggestions(m, scan, misspelledWords, i) ==
  IF i > Len(misspelledWords) THEN m
  ELSE fetchSuggestions(
         SpellCheckerService_getSuggestions(m, misspelledWords[i].word, scan.scanLanguage,
            [k |-> "scanSuggested", scan |-> scan.id, index |-> i]),
         scan, misspelledWords, i + 1)

(* scanDocument after await checkWords *)
scanChecked(m, cont, ok, data) ==
  LET scan == [m.scans[cont.scan] EXCEPT !.checkResults = data]
      misspelledWords == SelectSeq(scan.words, LAMBDA w : ~data[w.word])
  IN IF ~getEnabled(m) \/ Len(misspelledWords) = 0 THEN scanDone(m, scan, "check", {})
     ELSE fetchSuggestions([m EXCEPT !.scans[cont.scan] =
                                         [scan EXCEPT !.misspelled = misspelledWords]],
                           scan, misspelledWords, 1)

(* the timer callback of scheduleScan up to the first await of scanDocument *)
scanTimer(m) ==
  LET timer == m.view.scanTimeout[1]
      fired == [m EXCEPT !.view.scanTimeout = Tail(@)]
      words == extractWords(m.view.doc)
      scan == [id |-> m.wm.requestCounter + 1,
               scanGeneration |-> timer.scanGeneration,
               scanLanguage |-> timer.scanLanguage,
               doc |-> m.view.doc, words |-> words,
               checkResults |-> <<>>, misspelled |-> <<>>, suggestions |-> <<>>]
  IN IF getScanGeneration(m) # timer.scanGeneration
     THEN Scanned(fired, scan, "debounce", {}, "stale", fired)
     ELSE IF ~getEnabled(m) THEN Scanned(fired, scan, "debounce", {}, "disabled", fired)
     ELSE IF Len(words) = 0 THEN scanDone(fired, scan, "check", {})
     ELSE SpellCheckerService_checkWords(
            [fired EXCEPT !.scans = @ @@ (scan.id :> scan)],
            [i \in 1..Len(words) |-> words[i].word], scan.scanLanguage,
            [k |-> "scanChecked", scan |-> scan.id])

----------------------------------------------------------------------------
(* The commands of the extension *)

(* toggleSpellChecker that leaves the generation as it is *)
toggleSpellChecker_same(m, newEnabled, hasDispatch) ==
  [m EXCEPT !.ext.enabled = newEnabled]

(* toggleSpellChecker(enabled); hasDispatch: the command was given dispatch *)
toggleSpellChecker(m, newEnabled, hasDispatch) ==
  LET bumped == [m EXCEPT !.ext.scanGeneration = @ + 1, !.ext.enabled = newEnabled]
      tr == Transaction(m.view.doc, "none", TRUE, {}, bumped.ext.scanGeneration, newEnabled)
  IN IF ~hasDispatch THEN bumped
     ELSE IF ~newEnabled
     THEN dispatch(clearCache(cancelAllPendingRequests(bumped)), tr)
     ELSE dispatch(DictionaryManager_loadDictionary(bumped, bumped.ext.language), tr)

(* setSpellCheckerLanguage(language) up to await switchLanguage *)
setSpellCheckerLanguageFor(m, language, hasDispatch, up) ==
  LET bumped == [m EXCEPT !.ext.scanGeneration = @ + 1, !.ext.enabled = TRUE]
      currentGeneration == bumped.ext.scanGeneration
      cleared == clearCache(cancelAllPendingRequests(bumped))
      shown == IF hasDispatch
               THEN dispatch(cleared, Transaction(m.view.doc, "none", TRUE, {},
                                                  currentGeneration, FALSE))
               ELSE cleared
  IN switchLanguage(shown, language,
        [k |-> "setSpellCheckerLanguage", language |-> language,
         currentGeneration |-> currentGeneration, up |-> up])

(* the command called without anyone awaiting it *)
setSpellCheckerLanguage(m, language, hasDispatch) ==
  setSpellCheckerLanguageFor(m, language, hasDispatch, [k |-> "none"])

(* steps 6 to 8 without the comparison of the generations *)
afterSwitchLanguage_unchecked(m, cont, ok) ==
  IF ~ok THEN m
  ELSE dispatch([m EXCEPT !.ext.language = cont.language],
                Transaction(m.view.doc, "none", FALSE, {}, cont.currentGeneration, TRUE))

(* steps 6 to 8 of setSpellCheckerLanguage, and its catch *)
afterSwitchLanguage(m, cont, ok) ==
  IF ~ok THEN m
  ELSE IF m.ext.scanGeneration # cont.currentGeneration THEN m
  ELSE dispatch([m EXCEPT !.ext.language = cont.language],
                Transaction(m.view.doc, "none", FALSE, {}, cont.currentGeneration, TRUE))

(* what a setSpellCheckerLanguage did after its await: the language and the  *)
(* generation of the call, whether the switch succeeded, the generation at   *)
(* that moment, and the language, the plugin state and the timer before and  *)
(* after                                                                     *)
Switched(m, cont, ok, after) ==
  LET seen(x) == [language |-> x.ext.language, plugin |-> x.plugin, view |-> x.view]
  IN [after EXCEPT !.history.switched = @ \cup
        {[language |-> cont.language, currentGeneration |-> cont.currentGeneration,
          ok |-> ok, generation |-> m.ext.scanGeneration,
          before |-> seen(m), after |-> seen(after)]}]

(* setSpellCheckerLanguage after await switchLanguage *)
(* the command returns false when switchLanguage threw or the generation  *)
(* changed, and the result of commands.focus() otherwise; it never throws  *)
setSpellCheckerLanguage_settled(m, cont, ok, data) ==
  Settle(Switched(m, cont, ok, afterSwitchLanguage(m, cont, ok)), cont.up, TRUE,
         BoolText(ok /\ m.ext.scanGeneration = cont.currentGeneration))

(* the value that the handler reverts to: the state of the extension *)
ActualValue(m) == IF m.ext.enabled THEN m.ext.language ELSE "off"

(* handleSpellcheckerChange after its try block: catch reverts the         *)
(* optimistic value when the command threw; finally ends the loading and   *)
(* arms the timer that allows the next switch                              *)
handleSpellcheckerChange_settled(m, cont, ok, data) ==
  [m EXCEPT !.ui.localValue = IF ~ok THEN ActualValue(m) ELSE @,
            !.ui.isLoading = FALSE]

(* handleSpellcheckerChange(value) up to its await *)
handleSpellcheckerChange(m, value) ==
  IF m.ui.isSwitching THEN m
  ELSE LET started == [m EXCEPT !.ui = [localValue |-> value, isLoading |-> TRUE,
                                        isSwitching |-> TRUE]]
       IN IF value = "off"
          THEN handleSpellcheckerChange_settled(
                 toggleSpellChecker(started, FALSE, TRUE), [k |-> "none"], TRUE, "")
          ELSE setSpellCheckerLanguageFor(started, value, TRUE,
                                          [k |-> "handleSpellcheckerChange"])


----------------------------------------------------------------------------
(* Settling *)

(* the continuation cont of a settled promise runs: ok is resolve or reject *)
Settle(m, cont, ok, data) ==
  CASE cont.k = "verifyLanguage" -> verifyLanguage_settled(m, cont, ok, data)
    [] cont.k = "checkWord" -> checkWord_settled(m, cont, ok, data)
    [] cont.k = "checkWords" -> checkWords_settled(m, cont, ok, data)
    [] cont.k = "getSuggestions" ->
         Suggested(m, cont, ok, data, getSuggestions_settled(m, cont, ok, data))
    [] cont.k = "caller" -> ResolveCaller(m, cont, ok, data)
    [] cont.k = "loadDictionary" -> loadDictionary_settled(m, cont, ok, data)
    [] cont.k = "switchLanguage" -> switchLanguage_settled(m, cont, ok, data)
    [] cont.k = "switchLoaded" -> switchLoaded_settled(m, cont, ok, data)
    [] cont.k = "switchVerify" -> switchVerify_settled(m, cont, ok, data)
    [] cont.k = "setSpellCheckerLanguage" -> setSpellCheckerLanguage_settled(m, cont, ok, data)
    [] cont.k = "handleSpellcheckerChange" ->
         handleSpellcheckerChange_settled(m, cont, ok, data)
    [] cont.k = "scanChecked" -> scanChecked(m, cont, ok, data)
    [] cont.k = "scanSuggested" -> scanSuggested(m, cont, ok, data)
    [] cont.k = "none" -> m

(* the promise reactions queued by the macrotask run, oldest first *)
RECURSIVE Drain(_)
Drain(m) ==
  IF Len(m.microtasks) = 0 THEN m
  ELSE LET t == Head(m.microtasks)
       IN Drain(Settle([m EXCEPT !.microtasks = Tail(@)], t.cont, t.ok, t.data))

(* handleMessage that leaves the entry in the table *)
handleMessage_kept(m, e) ==
  Settle(m, m.wm.pendingRequests[e.requestId].cont, e.type = "SUCCESS", e.data)

(* handleMessage of a response e whose id is pending *)
handleMessage(m, e) ==
  LET pending == m.wm.pendingRequests[e.requestId]
      removed == [m EXCEPT
                    !.wm.timeouts = @ \ {e.requestId},
                    !.wm.pendingRequests = Without(@, e.requestId)]
  IN Settle(removed, pending.cont, e.type = "SUCCESS", e.data)

(* a timeout that rejects every pending request *)
requestTimeout_all(m, requestId) == RejectAll(m, "Request timeout")

(* the timeout callback of sendMessage *)
requestTimeout(m, requestId) ==
  LET pending == m.wm.pendingRequests[requestId]
      removed == [m EXCEPT
                    !.wm.timeouts = @ \ {requestId},
                    !.wm.pendingRequests = Without(@, requestId)]
  IN Settle(removed, pending.cont, FALSE, "Request timeout")

----------------------------------------------------------------------------
(* The worker thread *)

worker_onmessage(e) ==
  LET language == worker.currentLanguage
      loaded == language # NoLanguage
      notLoaded == [type |-> "ERROR", requestId |-> e.requestId,
                    data |-> "Dictionary not loaded"]
      success(result) == [type |-> "SUCCESS", requestId |-> e.requestId, data |-> result]
  IN CASE e.type = "CHECK_WORD" ->
            IF loaded THEN success(worker_checkWord(language, e.data)) ELSE notLoaded
       [] e.type = "CHECK_WORDS" ->
            IF loaded \/ Len(e.data) = 0
            THEN success(worker_checkWords(language, e.data)) ELSE notLoaded
       [] e.type = "GET_SUGGESTIONS" ->
            IF loaded THEN success(worker_getSuggestions(language, e.data)) ELSE notLoaded
       [] e.type = "GET_CURRENT_LANGUAGE" -> success(language)

(* the worker receives the next message; a LOAD_DICTIONARY starts a fetch *)
WorkerReceive ==
  /\ Len(toWorker) > 0
  /\ LET e == Head(toWorker)
     IN /\ toWorker' = Tail(toWorker)
        /\ IF e.type = "LOAD_DICTIONARY"
           THEN /\ worker' = [worker EXCEPT !.fetches =
                      @ \cup {[requestId |-> e.requestId, language |-> e.data]}]
                /\ UNCHANGED fromWorker
           ELSE /\ fromWorker' = Append(fromWorker, worker_onmessage(e))
                /\ UNCHANGED worker
  /\ last' = Internal
  /\ UNCHANGED <<wm, svc, ui, promises, dm, ext, plugin, view, scans, history, debounceState,
               replaceState,
      extractState>>

(* loadDictionary of the worker: the fetch succeeded *)
FetchDone ==
  \E f \in worker.fetches :
    /\ worker' = [worker EXCEPT !.fetches = @ \ {f}, !.currentLanguage = f.language]
    /\ fromWorker' = Append(fromWorker,
          [type |-> "SUCCESS", requestId |-> f.requestId, data |-> "loaded"])
    /\ last' = Internal
    /\ UNCHANGED <<wm, svc, ui, promises, dm, ext, plugin, view, scans, toWorker, history,
                   debounceState, replaceState,
      extractState>>

(* loadDictionary of the worker: the fetch or the decoding failed *)
FetchFail ==
  \E f \in worker.fetches :
    /\ worker' = [worker EXCEPT !.fetches = @ \ {f}]
    /\ fromWorker' = Append(fromWorker,
          [type |-> "ERROR", requestId |-> f.requestId, data |-> "Failed to fetch dictionary"])
    /\ last' = Internal
    /\ UNCHANGED <<wm, svc, ui, promises, dm, ext, plugin, view, scans, toWorker, history,
                   debounceState, replaceState,
      extractState>>

----------------------------------------------------------------------------
(* Main-thread macrotasks common to all specifications *)

(* a macrotask ends when its promise reactions have run *)
Step(m) == Commit(Drain(m))

(* the bound of a specification: a step that takes requestCounter beyond n   *)
(* is left out                                                               *)
Within(n) == wm'.requestCounter <= n

(* worker.onmessage: the next response is handled *)
HandleMessage ==
  /\ Len(fromWorker) > 0
  /\ LET e == Head(fromWorker)
     IN /\ fromWorker' = Tail(fromWorker)
        /\ IF e.requestId \in DOMAIN wm.pendingRequests
           THEN Step(handleMessage([Main EXCEPT !.last = Internal], e))
           ELSE Step([Main EXCEPT
                        !.last = Internal])
  /\ UNCHANGED worker

(* a request's 30 second timer expires *)
RequestTimeout ==
  \E requestId \in wm.timeouts :
    /\ Step(requestTimeout([Main EXCEPT !.last = Internal], requestId))
    /\ UNCHANGED <<worker, fromWorker>>

----------------------------------------------------------------------------
(* Calls of the service and of the WorkerManager by a client (as the unit    *)
(* tests make them)                                                          *)

ServiceWords == {W_Ab, <<" ", "a", "b">>, <<"b">>}
ServiceWordLists == {<<W_Ab, W_ab>>}

CheckWordIn(words, languages) ==
  \E word \in words, language \in languages :
    /\ Step(SpellCheckerService_checkWord(
              [Main EXCEPT !.history.rechecked = @ \cup {<<language, toLowerCase(trim(word))>>},
                           !.history.asked = word],
              word, language))
    /\ UNCHANGED <<worker, fromWorker>>

CheckWordOf(words) == CheckWordIn(words, LanguageCode)

CheckWord == CheckWordOf(ServiceWords)

CheckWords ==
  \E words \in ServiceWordLists, language \in LanguageCode :
    LET pid == wm.requestCounter + 1
        called == SpellCheckerService_checkWords(Main, words, language, Caller(pid))
    IN /\ Step([called EXCEPT
                  !.promises = @ @@ (pid :> NewPromise("checkWords", language, words)),
                  !.last = Label("checkWords", language, <<>>, pid, "sent")])
       /\ UNCHANGED <<worker, fromWorker>>

GetSuggestionsIn(words, languages) ==
  \E word \in words, language \in languages :
    LET pid == wm.requestCounter + 1
        key == toLowerCase(trim(word))
        withPromise == [Main EXCEPT
           !.promises = @ @@ (pid :> NewPromise("getSuggestions", language, key))]
        called == SpellCheckerService_getSuggestions(withPromise, word, language, Caller(pid))
    IN /\ IF <<language, key>> \in DOMAIN svc.suggestionsCache
          THEN Step([Main EXCEPT !.last = Label("getSuggestions", language, key, 0, "cached")])
          ELSE Step([called EXCEPT !.last = Label("getSuggestions", language, key, pid, "sent")])
       /\ UNCHANGED <<worker, fromWorker>>

GetSuggestions == GetSuggestionsIn(ServiceWords, LanguageCode)

ClearCache ==
  /\ Step([clearCache(Main) EXCEPT !.last = Label("clearCache", NoLanguage, <<>>, 0, ""),
                                   !.history.suggested = {}])
  /\ UNCHANGED <<worker, fromWorker>>

CancelAll ==
  /\ Step([cancelAllPendingRequests(Main) EXCEPT
             !.last = Label("cancelAll", NoLanguage, <<>>, 0, "")])
  /\ UNCHANGED <<worker, fromWorker>>

(* calls of WorkerManager by a client that keeps the returned promise *)
Request ==
  \E call \in {"LOAD_DICTIONARY", "CHECK_WORD", "GET_CURRENT_LANGUAGE"},
     language \in LanguageCode :
    LET pid == wm.requestCounter + 1
        sent == CASE call = "LOAD_DICTIONARY" ->
                       WorkerManager_loadDictionary(Main, language, Caller(pid))
                  [] call = "CHECK_WORD" ->
                       WorkerManager_checkWord(Main, W_Ab, NoLanguage, Caller(pid))
                  [] call = "GET_CURRENT_LANGUAGE" ->
                       getCurrentLanguage(Main, Caller(pid))
    IN /\ call # "LOAD_DICTIONARY" => language = DEFAULT_LANGUAGE
       /\ Step([sent EXCEPT
                  !.promises = @ @@ (pid :> NewPromise(call, language, <<>>)),
                  !.last = Label(call, language, <<>>, pid, "sent")])
       /\ UNCHANGED <<worker, fromWorker>>

(* the worker raises an error event *)
WorkerError ==
  /\ wm.worker = "live"
  /\ Step(handleError([Main EXCEPT !.last = Label("onerror", NoLanguage, <<>>, 0, "")]))
  /\ UNCHANGED <<worker, fromWorker>>

LoadDictionary ==
  \E language \in LanguageCode :
    /\ Step([WorkerManager_loadDictionary(Main, language, [k |-> "none"]) EXCEPT
               !.last = Label("loadDictionary", language, <<>>, wm.requestCounter + 1, "sent")])
    /\ UNCHANGED <<worker, fromWorker>>

----------------------------------------------------------------------------
(* The editor: the commands, typing, and the timers of the main thread *)

(* the words in the caches of the service, with their languages *)
CachedPairs ==
  UNION {{<<l, w>> : w \in svc.correctWordsCache[l] \cup svc.misspelledWordsCache[l]} :
           l \in LanguageCode}

Toggle ==
  \E newEnabled \in BOOLEAN, hasDispatch \in BOOLEAN :
    /\ ext.scanGeneration < MaxGeneration
    /\ LET noted == IF hasDispatch /\ ~newEnabled
                    THEN [Main EXCEPT !.history.cancelledUpTo = wm.requestCounter,
                                      !.history.disabledAt = wm.requestCounter,
                                      !.history.forgotten = CachedPairs,
                                      !.history.rechecked = {}]
                    ELSE Main
       IN Step([toggleSpellChecker(noted, newEnabled, hasDispatch) EXCEPT
                  !.last = Label("toggleSpellChecker", ext.language, <<>>,
                                 IF hasDispatch THEN 1 ELSE 0, BoolText(newEnabled))])
    /\ UNCHANGED <<worker, fromWorker>>

SetLanguage ==
  \E language \in LanguageCode, hasDispatch \in BOOLEAN :
    /\ ext.scanGeneration < MaxGeneration
    /\ Step([setSpellCheckerLanguage(
                [Main EXCEPT !.history.cancelledUpTo = wm.requestCounter],
                language, hasDispatch) EXCEPT
               !.last = Label("setSpellCheckerLanguage", language, <<>>,
                              IF hasDispatch THEN 1 ELSE 0, "")])
    /\ UNCHANGED <<worker, fromWorker>>

TypeCharOf(chars, length) ==
  \E c \in chars :
    /\ Len(view.doc) < length
    /\ Step([dispatch(Main, Transaction(Append(view.doc, c), "insert", FALSE, {},
                                        NoGeneration, FALSE)) EXCEPT
               !.last = Label("type", NoLanguage, <<c>>, 0, "")])
    /\ UNCHANGED <<worker, fromWorker>>

TypeCharUpTo(length) == TypeCharOf(Typed, length)

TypeChar == TypeCharUpTo(MaxDocLength)

(* the last character of the document is deleted *)
DeleteChar ==
  /\ Len(view.doc) > 0
  /\ Step([dispatch(Main, Transaction(SubSeq(view.doc, 1, Len(view.doc) - 1), "delete",
                                      FALSE, {}, NoGeneration, FALSE)) EXCEPT
             !.last = Label("delete", NoLanguage, <<>>, 0, "")])
  /\ UNCHANGED <<worker, fromWorker>>

(* the debounce timer of scheduleScan fires *)
ScanTimer ==
  /\ view.scanTimeout # <<>>
  /\ Step(scanTimer([Main EXCEPT !.last = Internal]))
  /\ UNCHANGED <<worker, fromWorker>>

(* the wait of the retry loop of switchLanguage is over *)
RetryDelay ==
  \E timer \in dm.retryTimers :
    /\ Step(switchRetry([Main EXCEPT !.last = Internal], timer))
    /\ UNCHANGED <<worker, fromWorker>>

----------------------------------------------------------------------------
(* The state after construction of the managers and of the service *)

InitManagers ==
  /\ wm = [worker |-> "none", pendingRequests |-> <<>>, requestCounter |-> 0,
           timeouts |-> {}]
  /\ svc = [correctWordsCache |-> [l \in LanguageCode |-> {}],
            misspelledWordsCache |-> [l \in LanguageCode |-> {}],
            suggestionsCache |-> <<>>, pendingChecks |-> <<>>]
  /\ promises = <<>>
  /\ dm = [loadedLanguages |-> {}, loadingPromises |-> {}, retryTimers |-> {},
           currentLanguage |-> DEFAULT_LANGUAGE]
  /\ toWorker = <<>>
  /\ worker = [currentLanguage |-> NoLanguage, fetches |-> {}]
  /\ fromWorker = <<>>
  /\ last = Label("init", NoLanguage, <<>>, 0, "")

NoHistory ==
  [scanned |-> {}, switched |-> {}, ranked |-> {}, suggested |-> {}, asked |-> <<>>,
   cancelledUpTo |-> 0, disabledAt |-> 0, forgotten |-> {}, rechecked |-> {},
   queried |-> <<>>, committed |-> [tracking |-> FALSE, id |-> 0]]

(* SpellCheckerUI before a selection: getInitialValue() of the options of *)
(* the extension, nothing loading, no switch in progress                  *)
NoUI == [localValue |-> DEFAULT_LANGUAGE, isLoading |-> FALSE, isSwitching |-> FALSE]

(* no editor is mounted *)
(* debounce(func, wait): timeout is null (0), no timer is armed *)
NoDebounce == [timeout |-> 0, timers |-> {}, counter |-> 0, args |-> 0, calls |-> <<>>]

(* debounced(...args): clearTimeout(timeout), then setTimeout; args keeps *)
(* the arguments of this call for the properties                         *)
debounced(d, args) ==
  LET id == d.counter + 1
      cleared == IF d.timeout # 0 THEN {t \in d.timers : t.id # d.timeout} ELSE d.timers
  IN [d EXCEPT !.timers = cleared \cup {[id |-> id, args |-> args]},
               !.timeout = id, !.counter = id, !.args = args]

(* the timer callback: func(...args) *)
debounceTimer(d, t) == [d EXCEPT !.timers = @ \ {t}, !.calls = Append(@, t.args)]

(* the nodes of a document as the tokens that ProseMirror counts: position *)
(* p is between token p and token p + 1                                    *)
Paragraph(text) == <<"<paragraph>">> \o text \o <<"</paragraph>">>
CodeBlock(text) == <<"<codeBlock>">> \o text \o <<"</codeBlock>">>

(* extractWords and findAllInstances have not been called *)
NoExtract == [phase |-> "none", doc |-> <<>>, target |-> <<>>, words |-> <<>>,
              instances |-> <<>>]

(* replaceAllInstances has not been called *)
NoReplace ==
  [phase |-> "none", doc |-> <<>>, word |-> <<>>, replacement |-> <<>>,
   steps |-> <<>>, result |-> <<>>]

(* descendants: the token is in a node that is skipped *)
InCodeBlock(doc, i) ==
  LET opens == {j \in 1..i : doc[j] \in {"<paragraph>", "<codeBlock>"}}
  IN opens # {} /\ doc[CHOOSE j \in opens : \A k \in opens : k <= j] = "<codeBlock>"

(* findAllInstances: the words of the text nodes outside code blocks that *)
(* are the target word when normalized, in document order                 *)
findAllInstances(doc, targetWord) ==
  LET normalizedTarget == normalizeWord(targetWord)
      starts == {i \in 1..Len(doc) :
                   IsWordChar(doc[i]) /\ (i = 1 \/ ~IsWordChar(doc[i - 1]))}
      matching == {i \in starts :
                     /\ ~InCodeBlock(doc, i)
                     /\ normalizeWord(SubSeq(doc, i, WordEnd(doc, i))) = normalizedTarget}
      order == SeqOfSet(matching)
  IN [n \in 1..Len(order) |->
        [word |-> normalizedTarget, from |-> order[n] - 1, to |-> WordEnd(doc, order[n])]]

(* instances.sort((a, b) => a.from - b.from) *)
RECURSIVE sortInstances_ascending(_)
sortInstances_ascending(instances) ==
  IF Len(instances) <= 1 THEN instances
  ELSE LET x == instances[Len(instances)]
           front == sortInstances_ascending(SubSeq(instances, 1, Len(instances) - 1))
           n == Cardinality({i \in 1..Len(front) : front[i].from <= x.from})
       IN SubSeq(front, 1, n) \o <<x>> \o SubSeq(front, n + 1, Len(front))

(* instances.sort((a, b) => b.from - a.from) *)
RECURSIVE sortInstances(_)
sortInstances(instances) ==
  IF Len(instances) <= 1 THEN instances
  ELSE LET x == instances[Len(instances)]
           front == sortInstances(SubSeq(instances, 1, Len(instances) - 1))
           n == Cardinality({i \in 1..Len(front) : front[i].from >= x.from})
       IN SubSeq(front, 1, n) \o <<x>> \o SubSeq(front, n + 1, Len(front))

(* tr.replaceWith(from, to, schema.text(replacement)) on the document of *)
(* the transaction; a range outside the document raises a RangeError     *)
replaceWith(doc, from, to, replacement) ==
  IF to > Len(doc) THEN doc
  ELSE SubSeq(doc, 1, from) \o replacement \o SubSeq(doc, to + 1, Len(doc))

(* the loop of replaceAllInstances: steps keeps what each replaceWith *)
(* replaced, for the properties                                       *)
RECURSIVE replaceEach(_, _, _)
replaceEach(r, instances, replacement) ==
  IF Len(instances) = 0 THEN r
  ELSE LET instance == Head(instances)
       IN replaceEach(
            [r EXCEPT
               !.steps = Append(@, [from |-> instance.from, to |-> instance.to,
                                    old |-> SubSeq(r.result, instance.from + 1,
                                                   Min2(instance.to, Len(r.result)))]),
               !.result = replaceWith(@, instance.from, instance.to, replacement)],
            Tail(instances), replacement)

(* replaceAllInstances(word, replacement) with dispatch *)
replaceAllInstances(doc, word, replacement) ==
  replaceEach([phase |-> "done", doc |-> doc, word |-> word, replacement |-> replacement,
               steps |-> <<>>, result |-> doc],
              sortInstances(findAllInstances(doc, word)), replacement)

EditorOff ==
  /\ ext = [enabled |-> FALSE, language |-> DEFAULT_LANGUAGE, scanGeneration |-> 0]
  /\ plugin = [decorations |-> {}, shouldRescan |-> FALSE, generation |-> 0]
  /\ view = [doc |-> <<>>, scanTimeout |-> <<>>]
  /\ scans = <<>>
  /\ history = NoHistory
  /\ ui = NoUI
  /\ debounceState = NoDebounce

NoEditor == EditorOff /\ replaceState = NoReplace /\ extractState = NoExtract

(* the service and the managers alone *)
InitService == InitManagers /\ NoEditor

(* the service and the managers after a first loadDictionary(language) has   *)
(* resolved: request 1 was the LOAD_DICTIONARY                               *)
InitLoaded ==
  \E language \in LanguageCode :
    /\ wm = [worker |-> "live", pendingRequests |-> <<>>, requestCounter |-> 1,
             timeouts |-> {}]
    /\ svc = [correctWordsCache |-> [l \in LanguageCode |-> {}],
              misspelledWordsCache |-> [l \in LanguageCode |-> {}],
              suggestionsCache |-> <<>>, pendingChecks |-> <<>>]
    /\ promises = <<>>
    /\ dm = [loadedLanguages |-> {language}, loadingPromises |-> {}, retryTimers |-> {},
             currentLanguage |-> language]
    /\ toWorker = <<>>
    /\ worker = [currentLanguage |-> language, fetches |-> {}]
    /\ fromWorker = <<>>
    /\ last = Label("init", NoLanguage, <<>>, 0, "")
    /\ NoEditor

(* the editor before the extension is mounted: the options of addOptions *)
Unmounted ==
  [wm |-> [worker |-> "none", pendingRequests |-> <<>>, requestCounter |-> 0,
           timeouts |-> {}],
   svc |-> [correctWordsCache |-> [l \in LanguageCode |-> {}],
            misspelledWordsCache |-> [l \in LanguageCode |-> {}],
            suggestionsCache |-> <<>>, pendingChecks |-> <<>>],
   promises |-> <<>>,
   dm |-> [loadedLanguages |-> {}, loadingPromises |-> {}, retryTimers |-> {},
           currentLanguage |-> DEFAULT_LANGUAGE],
   ext |-> [enabled |-> TRUE, language |-> DEFAULT_LANGUAGE, scanGeneration |-> 0],
   plugin |-> [decorations |-> {}, shouldRescan |-> FALSE, generation |-> 0],
   view |-> [doc |-> InitialDoc, scanTimeout |-> <<>>],
   scans |-> <<>>, toWorker |-> <<>>, last |-> Label("init", NoLanguage, <<>>, 0, ""),
   history |-> NoHistory, ui |-> NoUI, microtasks |-> <<>>]

(* addProseMirrorPlugins loads the dictionary, the plugin view schedules the *)
(* initial scan                                                              *)
Mounted == scheduleScan(DictionaryManager_loadDictionary(Unmounted, DEFAULT_LANGUAGE))

InitEditor ==
  /\ wm = Mounted.wm
  /\ svc = Mounted.svc
  /\ promises = Mounted.promises
  /\ dm = Mounted.dm
  /\ ext = Mounted.ext
  /\ plugin = Mounted.plugin
  /\ view = Mounted.view
  /\ scans = Mounted.scans
  /\ toWorker = Mounted.toWorker
  /\ last = Mounted.last
  /\ history = Mounted.history
  /\ ui = Mounted.ui
  /\ debounceState = NoDebounce
  /\ replaceState = NoReplace
  /\ extractState = NoExtract
  /\ worker = [currentLanguage |-> NoLanguage, fetches |-> {}]
  /\ fromWorker = <<>>

(* a document with a misspelled word that has suggestions, one that has    *)
(* none and a correct word                                                  *)
W_aa == <<"a", "a">>
ScanDoc == W_ab \o <<" ">> \o W_aa \o <<" ">> \o W_Ab \o <<" ">>

MountedScan ==
  scheduleScan(DictionaryManager_loadDictionary(
                 [Unmounted EXCEPT !.view.doc = ScanDoc], DEFAULT_LANGUAGE))

InitScan ==
  /\ wm = MountedScan.wm
  /\ svc = MountedScan.svc
  /\ promises = MountedScan.promises
  /\ dm = MountedScan.dm
  /\ ext = MountedScan.ext
  /\ plugin = MountedScan.plugin
  /\ view = MountedScan.view
  /\ scans = MountedScan.scans
  /\ toWorker = MountedScan.toWorker
  /\ last = MountedScan.last
  /\ history = MountedScan.history
  /\ ui = MountedScan.ui
  /\ debounceState = NoDebounce
  /\ replaceState = NoReplace
  /\ extractState = NoExtract
  /\ worker = [currentLanguage |-> NoLanguage, fetches |-> {}]
  /\ fromWorker = <<>>

(* the scans of that document *)
NextScan ==
  \/ TypeCharUpTo(MaxScanDocLength)
  \/ Toggle /\ Within(MaxScanDocRequests) /\ ext'.scanGeneration <= MaxScanDocGeneration
  \/ ScanTimer /\ Within(MaxScanDocRequests)
  \/ WorkerReceive
  \/ FetchDone
  \/ HandleMessage /\ Within(MaxScanDocRequests)
  \/ RequestTimeout /\ Within(MaxScanDocRequests)

SpecScan == InitScan /\ [][NextScan]_vars

DebounceArgs == {1, 2}

(* a call of the debounced function *)
Debounced ==
  \E args \in DebounceArgs :
    /\ debounceState.counter < MaxDebounceCalls
    /\ debounceState' = debounced(debounceState, args)
    /\ last' = Label("debounced", NoLanguage, <<>>, args, "")
    /\ UNCHANGED <<wm, svc, ui, promises, dm, ext, plugin, view, scans, toWorker, worker,
                   fromWorker, history, replaceState,
      extractState>>

(* a timer of the debounced function fires *)
DebounceTimer ==
  \E t \in debounceState.timers :
    /\ debounceState' = debounceTimer(debounceState, t)
    /\ last' = Internal
    /\ UNCHANGED <<wm, svc, ui, promises, dm, ext, plugin, view, scans, toWorker, worker,
                   fromWorker, history, replaceState,
      extractState>>

(* typing that re-arms the scan timer, the scans, and a debounced function *)
NextDebounce ==
  \/ TypeCharUpTo(MaxDebounceDocLength)
  \/ ScanTimer /\ Within(MaxDebounceRequests)
  \/ WorkerReceive
  \/ FetchDone
  \/ HandleMessage /\ Within(MaxDebounceRequests)
  \/ Debounced
  \/ DebounceTimer

SpecDebounce == InitEditor /\ [][NextDebounce]_vars

(* a letter, whitespace and a closing bracket *)
TypedAny == {"b", " ", ")"}

(* typing and deleting in the editor *)
NextTyping ==
  \/ TypeCharOf(TypedAny, MaxTypingDocLength)
  \/ DeleteChar /\ Len(view.doc) + MaxDeleted > Len(InitialDoc)
  \/ ScanTimer /\ Within(MaxTypingRequests)
  \/ WorkerReceive
  \/ FetchDone
  \/ HandleMessage /\ Within(MaxTypingRequests)

SpecTyping == InitEditor /\ [][NextTyping]_vars

(* the documents, the words and the replacements of replaceAllInstances: a *)
(* paragraph, and a code block that holds the word or is empty            *)
ReplaceChars == {"a", "b", "A", " "}
ReplaceTexts == UNION {[1..n -> ReplaceChars] : n \in 0..MaxReplaceTextLength}
ReplaceDocs ==
  {Paragraph(text) \o CodeBlock(code) : text \in ReplaceTexts, code \in {<<>>, W_ab}}
ReplaceWords == {W_ab, <<"A">>}
Replacements == {<<"b">>, W_Ab, <<"b", "a", "b">>, W_ab \o <<" ">> \o W_ab}

InitReplace ==
  /\ InitManagers
  /\ EditorOff
  /\ extractState = NoExtract
  /\ \E doc \in ReplaceDocs, word \in ReplaceWords, replacement \in Replacements :
       replaceState = [NoReplace EXCEPT !.phase = "called", !.doc = doc, !.word = word,
                                        !.replacement = replacement, !.result = doc]

(* the command replaceAllInstances runs *)
ReplaceAll ==
  /\ replaceState.phase = "called"
  /\ replaceState' = replaceAllInstances(replaceState.doc, replaceState.word,
                                         replaceState.replacement)
  /\ last' = Label("replaceAllInstances", NoLanguage, replaceState.word, 1, "")
  /\ UNCHANGED <<wm, svc, ui, promises, dm, ext, plugin, view, scans, toWorker, worker,
                 fromWorker, history, debounceState, extractState>>

NextReplace == ReplaceAll

SpecReplace == InitReplace /\ [][NextReplace]_vars

(* the user selects "off" or a language in SpellCheckerControls *)
SelectValue ==
  \E value \in {"off"} \cup LanguageCode :
    /\ Step([handleSpellcheckerChange(Main, value) EXCEPT
               !.last = Label("handleSpellcheckerChange", value, <<>>, 0, "")])
    /\ UNCHANGED <<worker, fromWorker>>

(* the timer that the finally block of handleSpellcheckerChange armed fires *)
SwitchCooldown ==
  /\ ui.isSwitching /\ ~ui.isLoading
  /\ Step([Main EXCEPT !.ui.isSwitching = FALSE, !.last = Internal])
  /\ UNCHANGED <<worker, fromWorker>>

(* The mounted editor where the user deletes and types while scans run; the *)
(* scan that committed last is recorded                                      *)
InitOverlap ==
  /\ wm = Mounted.wm
  /\ svc = Mounted.svc
  /\ promises = Mounted.promises
  /\ dm = Mounted.dm
  /\ ext = Mounted.ext
  /\ plugin = Mounted.plugin
  /\ view = Mounted.view
  /\ scans = Mounted.scans
  /\ toWorker = Mounted.toWorker
  /\ last = Mounted.last
  /\ history = [Mounted.history EXCEPT !.committed.tracking = TRUE]
  /\ ui = Mounted.ui
  /\ debounceState = NoDebounce
  /\ replaceState = NoReplace
  /\ extractState = NoExtract
  /\ worker = [currentLanguage |-> NoLanguage, fetches |-> {}]
  /\ fromWorker = <<>>

NextOverlap ==
  \/ TypeCharOf(TypedAny, MaxOverlapDocLength)
  \/ DeleteChar /\ Len(view.doc) + MaxOverlapDeleted > Len(InitialDoc)
  \/ ScanTimer /\ Within(MaxOverlapRequests)
  \/ WorkerReceive
  \/ FetchDone
  \/ HandleMessage /\ Within(MaxOverlapRequests)

SpecOverlap == InitOverlap /\ [][NextOverlap]_vars

(* Selections in the mounted editor; a dictionary fetch may fail *)
NextUI ==
  \/ SelectValue /\ Within(MaxUIRequests) /\ ext'.scanGeneration <= MaxUIGeneration
  \/ SwitchCooldown
  \/ ScanTimer /\ Within(MaxUIRequests)
  \/ WorkerReceive
  \/ FetchDone
  \/ FetchFail
  \/ HandleMessage /\ Within(MaxUIRequests)
  \/ RetryDelay /\ Within(MaxUIRequests)

SpecUI == InitEditor /\ [][NextUI]_vars

(* the documents of extractWords and findAllInstances: a block with a text *)
(* node, plain or with a mark, that another text node may follow; the      *)
(* characters are letters, a digit, an apostrophe, a hyphen, whitespace,   *)
(* a closing and an opening bracket                                        *)
ExtractChars == {"a", "A", "1", "'", "-", " ", ")", "("}
ExtractTexts == UNION {[1..n -> ExtractChars] : n \in 1..MaxExtractTextLength}
ExtractMarks == {{}, {"code"}, {"bold"}}
ExtractTails == {<<>>, <<Text(<<" ", "a", "a", " ">>, {})>>}
ExtractDocs ==
  {<<Block("paragraph", <<Text(text, marks)>> \o after)>> :
     text \in ExtractTexts, marks \in ExtractMarks, after \in ExtractTails}
  \cup {<<Block("codeBlock", <<Text(text, {})>>), Block("paragraph", after)>> :
          text \in ExtractTexts, after \in ExtractTails}

InitExtract ==
  /\ InitManagers
  /\ EditorOff
  /\ replaceState = NoReplace
  /\ \E doc \in ExtractDocs :
       extractState = [NoExtract EXCEPT !.phase = "called", !.doc = doc, !.target = W_aa]

(* extractWords(doc) and findAllInstances(doc, target) return *)
Extract ==
  /\ extractState.phase = "called"
  /\ extractState' = [extractState EXCEPT
        !.phase = "done",
        !.words = extractWordsOfNodes(extractState.doc),
        !.instances = findAllInstancesOfNodes(extractState.doc, extractState.target)]
  /\ last' = Label("extractWords", NoLanguage, <<>>, 1, "")
  /\ UNCHANGED <<wm, svc, ui, promises, dm, ext, plugin, view, scans, toWorker, worker,
                 fromWorker, history, debounceState, replaceState>>

NextExtract == Extract

SpecExtract == InitExtract /\ [][NextExtract]_vars

(* terminate() is called; messages of the terminated worker are not        *)
(* delivered                                                                *)
Terminate ==
  /\ Step(terminate([Main EXCEPT !.last = Label("terminate", NoLanguage, <<>>, 0, "")]))
  /\ IF wm.worker = "none" THEN UNCHANGED <<worker, fromWorker>>
     ELSE worker' = NewWorker /\ fromWorker' = <<>>

(* Requests of the callers of the WorkerManager, and calls of terminate() *)
NextTerminate ==
  \/ Request /\ Within(MaxTerminateRequests)
  \/ Terminate
  \/ WorkerReceive
  \/ FetchDone
  \/ HandleMessage

SpecTerminate == InitService /\ [][NextTerminate]_vars

(* a caller awaits DictionaryManager.switchLanguage(language) *)
SwitchLanguage ==
  \E language \in LanguageCode :
    LET pid == wm.requestCounter + 1
        withPromise == [Main EXCEPT
           !.promises = @ @@ (pid :> NewPromise("switchLanguage", language, <<>>))]
    IN /\ Step([switchLanguage(withPromise, language, Caller(pid)) EXCEPT
                  !.last = Label("switchLanguage", language, <<>>, pid, "sent")])
       /\ UNCHANGED <<worker, fromWorker>>

(* the calls of switchLanguage so far *)
SwitchCalls == {pid \in DOMAIN promises : promises[pid].op = "switchLanguage"}

(* A caller switches the language and awaits the call, while the worker may *)
(* be terminated, a dictionary fetch may fail and a request may time out.   *)
(* The timers fire and the messages are delivered; a fetch need not end.    *)
NextSwitch ==
  \/ /\ SwitchLanguage /\ Cardinality(SwitchCalls) < MaxSwitchCalls
     /\ \A pid \in SwitchCalls : promises[pid].state # "pending"
  \/ Terminate
  \/ WorkerReceive
  \/ FetchDone
  \/ FetchFail
  \/ HandleMessage
  \/ RequestTimeout
  \/ RetryDelay

(* a caller awaits DictionaryManager.loadDictionary(language) *)
ManagerLoadDictionary ==
  \E language \in LanguageCode :
    /\ Step([DictionaryManager_loadDictionary(Main, language) EXCEPT
               !.last = Label("DictionaryManager.loadDictionary", language, <<>>, 0, "")])
    /\ UNCHANGED <<worker, fromWorker>>

(* Callers load dictionaries and switch the language without awaiting each *)
(* other; a dictionary fetch may fail                                      *)
NextLoads ==
  \/ ManagerLoadDictionary /\ Within(MaxLoadRequests)
  \/ SwitchLanguage /\ Within(MaxLoadRequests)
  \/ WorkerReceive
  \/ FetchDone
  \/ FetchFail
  \/ HandleMessage
  \/ RetryDelay

SpecLoads == InitService /\ [][NextLoads]_vars

SpecSwitch ==
  /\ InitLoaded /\ [][NextSwitch]_vars
  /\ WF_vars(WorkerReceive) /\ WF_vars(HandleMessage)
  /\ WF_vars(RequestTimeout) /\ WF_vars(RetryDelay)

(* the editor with the extension *)
Next ==
  \/ Toggle /\ Within(MaxEditorRequests)
  \/ SetLanguage /\ Within(MaxEditorRequests)
  \/ TypeChar
  \/ ScanTimer /\ Within(MaxEditorRequests)
  \/ RetryDelay /\ Within(MaxEditorRequests)
  \/ WorkerReceive
  \/ FetchDone
  \/ HandleMessage /\ Within(MaxEditorRequests)
  \/ RequestTimeout /\ Within(MaxEditorRequests)

Spec == InitEditor /\ [][Next]_vars

(* the editor where the spell checker is switched off and on, and a client  *)
(* of the service calls checkWord                                            *)
NextToggle ==
  \/ Toggle /\ Within(MaxToggleRequests)
  \/ CheckWordIn({W_ab}, {DEFAULT_LANGUAGE}) /\ Within(MaxToggleRequests)
  \/ ScanTimer /\ Within(MaxToggleRequests)
  \/ WorkerReceive
  \/ FetchDone
  \/ HandleMessage /\ Within(MaxToggleRequests)

SpecToggle == InitEditor /\ [][NextToggle]_vars

(* checkWord and clearCache of the service over a loaded worker *)
NextCheckWord ==
  \/ CheckWord /\ Within(MaxRequests)
  \/ ClearCache
  \/ WorkerReceive
  \/ HandleMessage /\ Within(MaxRequests)
  \/ RequestTimeout

SpecCheckWord == InitLoaded /\ [][NextCheckWord]_vars

(* the request/response protocol of WorkerManager *)
NextProtocol ==
  \/ Request /\ Within(MaxProtocolRequests)
  \/ CancelAll
  \/ WorkerReceive
  \/ FetchDone
  \/ FetchFail
  \/ HandleMessage
  \/ RequestTimeout

SpecProtocol == InitService /\ [][NextProtocol]_vars

(* WorkerManager over a worker that raises error events *)
NextCrash ==
  \/ Request /\ Within(MaxCrashRequests)
  \/ WorkerError
  \/ WorkerReceive
  \/ FetchDone
  \/ HandleMessage /\ Within(MaxCrashRequests)

SpecCrash == InitService /\ [][NextCrash]_vars

(* the three queries of the service with a worker whose requests time out, *)
(* are cancelled, meet another language or a worker error                  *)
NextService ==
  \/ CheckWordIn({W_ab}, LanguageCode) /\ Within(MaxServiceRequests)
  \/ CheckWords /\ Within(MaxServiceRequests)
  \/ GetSuggestions /\ Within(MaxServiceRequests)
  \/ CancelAll
  \/ WorkerError
  \/ WorkerReceive
  \/ HandleMessage /\ Within(MaxServiceRequests)
  \/ RequestTimeout

SpecService == InitLoaded /\ [][NextService]_vars

(* getSuggestions asked again, and the cache cleared *)
NextCache ==
  \/ GetSuggestions /\ Within(MaxCacheRequests)
  \/ ClearCache
  \/ WorkerReceive
  \/ HandleMessage /\ Within(MaxCacheRequests)

SpecCache == InitLoaded /\ [][NextCache]_vars

(* the words the engine may suggest, and the lists of them it may return:   *)
(* the engine's dictionary is any dictionary                                *)
EngineWords == {W_ab, W_Ab, W_ba, W_bb, <<"a">>, <<"b">>}
EngineLists == UNION {[1..n -> EngineWords] : n \in 0..MaxEngineSuggestions}

(* worker: the GET_SUGGESTIONS case with a loaded dictionary, whatever the *)
(* dictionary suggests                                                     *)
EngineSuggests ==
  /\ Len(toWorker) > 0
  /\ Head(toWorker).type = "GET_SUGGESTIONS"
  /\ worker.currentLanguage # NoLanguage
  /\ \E suggestions \in EngineLists :
       fromWorker' = Append(fromWorker,
          [type |-> "SUCCESS", requestId |-> Head(toWorker).requestId,
           data |-> suggestions])
  /\ toWorker' = Tail(toWorker)
  /\ last' = Internal
  /\ UNCHANGED <<wm, svc, ui, promises, dm, ext, plugin, view, scans, worker, history,
               debounceState, replaceState,
      extractState>>

(* getSuggestions of the service with such an engine *)
NextSuggestions ==
  \/ GetSuggestionsIn({W_Ab}, {DEFAULT_LANGUAGE}) /\ Within(MaxRankRequests)
  \/ WorkerReceive
  \/ EngineSuggests
  \/ HandleMessage /\ Within(MaxRankRequests)

SpecSuggestions == InitLoaded /\ [][NextSuggestions]_vars

(* checkWords and clearCache of the service over a loaded worker *)
NextCheckWords ==
  \/ CheckWords /\ Within(MaxScanRequests)
  \/ ClearCache
  \/ WorkerReceive
  \/ HandleMessage /\ Within(MaxScanRequests)
  \/ RequestTimeout

SpecCheckWords == InitLoaded /\ [][NextCheckWords]_vars

(* checkWord of the service while dictionaries are loaded into the worker *)
NextLanguages ==
  \/ CheckWordOf({W_ab}) /\ Within(MaxLanguageRequests)
  \/ LoadDictionary /\ Within(MaxLanguageRequests)
  \/ WorkerReceive
  \/ FetchDone
  \/ HandleMessage /\ Within(MaxLanguageRequests)

SpecLanguages == InitLoaded /\ [][NextLanguages]_vars

----------------------------------------------------------------------------
(* Properties of WorkerManager *)

(* the promise of request id was rejected by cancelAllPendingRequests *)
Cancelled(id) ==
  /\ id \in DOMAIN promises
  /\ promises[id].state = "rejected"
  /\ promises[id].value = "Request cancelled"

(* the ids of the messages on their way to the worker, in it, or back *)
InFlight ==
  {toWorker[i].requestId : i \in 1..Len(toWorker)}
    \cup {f.requestId : f \in worker.fetches}
    \cup {fromWorker[i].requestId : i \in 1..Len(fromWorker)}

(* cancelAllPendingRequests: every request of the table is rejected with the *)
(* cancellation error, its timeout is cleared, the table is left empty       *)
C3_Cancel ==
  last'.op = "cancelAll" =>
    /\ \A id \in DOMAIN wm.pendingRequests : Cancelled(id)' /\ id \notin wm'.timeouts
    /\ wm'.pendingRequests = <<>>

(* the response of a cancelled request is handled: nothing changes *)
C3_LateResponse ==
  (/\ Len(fromWorker) > 0
   /\ fromWorker' = Tail(fromWorker)
   /\ Cancelled(Head(fromWorker).requestId))
    => UNCHANGED <<wm, svc, ui, promises, toWorker>>

(* C3: cancelAllPendingRequests rejects every request that is in the pending *)
(* table with a cancellation error, clears each one's timeout and leaves the *)
(* table empty; a response that arrives later for one of those ids has no    *)
(* effect.                                                                   *)
C3_CancelAll == [][C3_Cancel /\ C3_LateResponse]_vars

(* a request was cancelled and its response has since been handled *)
C3_Witness ==
  \E id \in DOMAIN promises :
    Cancelled(id) /\ id \notin InFlight /\ wm.pendingRequests = <<>> /\ last = Internal

----------------------------------------------------------------------------
(* Properties of SpellCheckerService.checkWord *)

(* the step makes no request to the worker *)
NoWorkerCall == wm'.requestCounter = wm.requestCounter /\ toWorker' = toWorker

(* the checkWord calls for <<language, word>> that went to the worker *)
Calls(language, word) ==
  {p \in DOMAIN promises : /\ promises[p].op = "checkWord"
                           /\ promises[p].language = language
                           /\ promises[p].word = word}

(* a call for the pair resolved with the worker's answer, no clearCache since *)
ResolvedByWorker(language, word) ==
  \E p \in Calls(language, word) :
    promises[p].state = "resolved" /\ promises[p].fromWorker /\ ~promises[p].cleared

(* the same, the call made after the most recent clearCache before it resolved *)
ResolvedSinceClear(language, word) ==
  \E p \in Calls(language, word) :
    /\ promises[p].state = "resolved" /\ promises[p].fromWorker
    /\ ~promises[p].cleared /\ ~promises[p].orphan

(* C7 as stated: once checkWord(w, L) has resolved with an answer from the   *)
(* worker, every later checkWord for L with the same trimmed, lowercased     *)
(* word makes no worker call until clearCache is called.                     *)
C7_AsStated ==
  [][(last'.op = "checkWord" /\ ResolvedByWorker(last'.language, last'.word))
       => NoWorkerCall]_vars

(* C7 amended: once a checkWord(w, L) that was called after the most recent  *)
(* clearCache has resolved with an answer from the worker, every later       *)
(* checkWord for L with the same trimmed, lowercased word makes no worker    *)
(* call until clearCache is called.                                          *)
C7_CacheHit ==
  [][(last'.op = "checkWord" /\ ResolvedSinceClear(last'.language, last'.word))
       => NoWorkerCall]_vars

(* a checkWord was answered from the cache that an earlier call filled *)
C7_Witness ==
  /\ last.op = "checkWord" /\ last.ret = 0
  /\ ResolvedSinceClear(last.language, last.word)

(* the calls for the pair since the most recent clearCache, still unresolved *)
PendingCalls(language, word) ==
  {p \in Calls(language, word) : promises[p].state = "pending" /\ ~promises[p].orphan}

(* C9: a checkWord for a language and normalized word for which a call made  *)
(* since the most recent clearCache is still unresolved receives that call's *)
(* pending promise, and no further worker request is made for the pair.      *)
C9_AsStated ==
  [][(last'.op = "checkWord" /\ PendingCalls(last'.language, last'.word) # {})
       => (last'.ret \in PendingCalls(last'.language, last'.word) /\ NoWorkerCall)]_vars

(* the words in the sets of language *)
Cached(language) ==
  svc.correctWordsCache[language] \cup svc.misspelledWordsCache[language]

(* the messages that the step posts to the worker *)
Posted == {i \in 1..Len(toWorker') : toWorker'[i].requestId > wm.requestCounter}

(* the calls of the service that have not resolved *)
Unresolved == {p \in DOMAIN promises : promises[p].state = "pending"}

(* C8: checkWords sends to the worker only words that are not in the         *)
(* language's correct or misspelled set: every CHECK_WORDS message posted    *)
(* holds only such words (and none is posted when all are cached).  Stated   *)
(* for a scan that runs alone, every earlier one having resolved.            *)
C8_AsStated ==
  [][\A i \in Posted :
       (toWorker'[i].type = "CHECK_WORDS" /\ Cardinality(Unresolved) = 1) =>
         \A word \in Range(toWorker'[i].data) :
           trim(toLowerCase(word)) \notin
             Cached(wm'.pendingRequests[toWorker'[i].requestId].cont.language)]_vars

(* C10, the sets: a word is in the correct or misspelled set of a language   *)
(* only if a check issued for that language resolved with the worker's       *)
(* answer.                                                                   *)
C10_OwnLanguage ==
  \A language \in LanguageCode : \A word \in Cached(language) :
    \E p \in Calls(language, word) : promises[p].state = "resolved" /\ promises[p].fromWorker

(* C10, the lookup: the first check of a word in a language makes its own    *)
(* worker call, whatever the other languages' sets hold.                     *)
C10_OwnCall ==
  (/\ last'.op = "checkWord"
   /\ Len(last'.word) >= MIN_WORD_LENGTH
   /\ Calls(last'.language, last'.word) = {})
    => (wm'.requestCounter = wm.requestCounter + 1 /\ Len(toWorker') = Len(toWorker) + 1)

(* C10: results recorded under one language never answer a lookup under     *)
(* another: the sets of a language hold only what checks for that language   *)
(* put there, and the first check of a word in a second language makes its   *)
(* own worker call.                                                          *)
C10_NoLeak == []C10_OwnLanguage /\ [][C10_OwnCall]_vars

(* the same word is cached as correct in de and as misspelled in en *)
C10_Witness ==
  /\ W_ab \in svc.correctWordsCache["de"]
  /\ W_ab \in svc.misspelledWordsCache["en"]

----------------------------------------------------------------------------
(* Scans and configuration changes in the editor *)

(* C1: a scan whose captured generation differs from the current generation  *)
(* when it ends, be it when its timer fires, after the word check or after   *)
(* the suggestions, commits nothing: the decorations of the plugin are after *)
(* it what they were before it                                               *)
C1_StaleScan ==
  \A s \in history.scanned :
    s.scanGeneration # s.generation => s.outcome # "committed" /\ s.after = s.before

(* a scan that had found a misspelled word and its suggestions ended stale *)
C1_Witness ==
  \E s \in history.scanned :
    /\ s.scanGeneration # s.generation
    /\ s.stage = "suggestions"
    /\ s.found # s.before

(* C2: a scan that captured language en commits no decorations once the      *)
(* language of the extension is de                                           *)
C2_AsStated ==
  \A s \in history.scanned :
    s.scanLanguage = "en" /\ s.language = "de" => s.outcome # "committed"

(* the requests the configuration changes so far have cancelled are not in  *)
(* the table                                                                 *)
C4_Cancelled == \A id \in DOMAIN wm.pendingRequests : id > history.cancelledUpTo

(* handling the response to a request issued before the last such change     *)
(* changes nothing on the main thread                                        *)
C4_Dropped ==
  (/\ fromWorker # <<>>
   /\ fromWorker' = Tail(fromWorker)
   /\ Head(fromWorker).requestId <= history.cancelledUpTo)
    => UNCHANGED <<wm, svc, ui, promises, dm, ext, plugin, view, scans, toWorker>>

(* C4: after toggleSpellChecker(false) or setSpellCheckerLanguage has called *)
(* cancelAllPendingRequests and clearCache, the result of a request issued   *)
(* before the change reaches no caller and no cache                          *)
C4_NoLateResult == []C4_Cancelled /\ [][C4_Dropped]_vars

(* the worker's answer to a request issued before the change is next to be  *)
(* handled, the caches being empty                                           *)
C4_Witness ==
  /\ fromWorker # <<>>
  /\ Head(fromWorker).requestId <= history.cancelledUpTo
  /\ Head(fromWorker).type = "SUCCESS"
  /\ Head(fromWorker).requestId > 1
  /\ CachedPairs = {}

(* C5: a step that bumps the generation leaves none of the requests that     *)
(* were pending in the table                                                 *)
C5_AsStated ==
  [][ext'.scanGeneration # ext.scanGeneration
       => DOMAIN wm.pendingRequests \cap DOMAIN wm'.pendingRequests = {}]_vars

----------------------------------------------------------------------------
(* Switching the spell checker off and on *)

(* what props.decorations gives the view *)
Shown == props_decorations([ext |-> ext, plugin |-> plugin])

(* the step is a dispatched toggleSpellChecker(false) *)
Disabling ==
  last'.op = "toggleSpellChecker" /\ last'.value = "false" /\ last'.ret = 1

(* the step is checkWord for a word that was cached before the disable, the  *)
(* spell checker is enabled again, and no checkWord for the word was made    *)
(* since the disable                                                         *)
FirstCheck ==
  /\ last'.op = "checkWord"
  /\ ext.enabled
  /\ <<last'.language, last'.word>> \in history.forgotten \ history.rechecked

(* C6 as stated: a dispatched toggleSpellChecker(false) empties the          *)
(* decorations shown, they stay empty while disabled, and after re-enabling  *)
(* the first checkWord for a word cached before the disable is not answered  *)
(* from the cache: it is sent to the worker, or joins a check that is        *)
(* pending there                                                             *)
C6_AsStated ==
  [][/\ Disabling => Shown' = {}
     /\ ~ext'.enabled => Shown' = {}
     /\ FirstCheck => last'.value \in {"sent", "pending"}]_vars

(* the disable empties the decorations and the caches of the service *)
C6_Emptied == Disabling => plugin'.decorations = {} /\ CachedPairs' = {} /\ Shown' = {}

(* what is cached afterwards the worker has answered to a request made       *)
(* after the disable                                                         *)
C6_Refilled ==
  ~(CachedPairs' \subseteq CachedPairs)
    => /\ fromWorker # <<>>
       /\ fromWorker' = Tail(fromWorker)
       /\ Head(fromWorker).requestId > history.disabledAt

(* checkWord for a word that is not cached is sent to the worker, or joins a *)
(* check that was sent after the disable                                     *)
C6_Miss ==
  (/\ last'.op = "checkWord"
   /\ <<last'.language, last'.word>> \in history.forgotten \ CachedPairs)
    => \/ last'.value = "sent" /\ wm'.requestCounter > wm.requestCounter
       \/ last'.value = "pending" /\ last'.ret > history.disabledAt

(* C6: a dispatched toggleSpellChecker(false) empties the decorations and    *)
(* the caches, the decorations shown stay empty while disabled, and a word   *)
(* that was cached before is answered from the cache again only after the    *)
(* worker has checked it again                                               *)
C6_Forgotten ==
  /\ [](~ext.enabled => Shown = {})
  /\ [][C6_Emptied /\ C6_Refilled /\ C6_Miss]_vars

(* after re-enabling, checkWord for a word cached before the disable was     *)
(* sent to the worker                                                        *)
C6_Witness ==
  /\ last.op = "checkWord"
  /\ last.value = "sent"
  /\ ext.enabled
  /\ <<last.language, last.word>> \in history.forgotten

----------------------------------------------------------------------------
(* The language verification of WorkerManager *)

(* the answers that the dictionary of the language gives for the words with  *)
(* the cache key word                                                        *)
AnswersOf(language, word) ==
  {BoolText(worker_checkWord(language, w)) :
     w \in {v \in ServiceWords \cup {W_ab} : toLowerCase(trim(v)) = word}}

(* C11: a check made with an expected language that returns the worker's     *)
(* answer returns what the dictionary of that language says about the word   *)
C11_AsStated ==
  \A p \in DOMAIN promises :
    (/\ promises[p].op = "checkWord"
     /\ promises[p].state = "resolved"
     /\ promises[p].fromWorker)
      => promises[p].value \in AnswersOf(promises[p].language, promises[p].word)

----------------------------------------------------------------------------
(* The two sets of a language *)

(* C12: no word is in the correct set and in the misspelled set of a language *)
C12_AsStated ==
  \A language \in LanguageCode :
    svc.correctWordsCache[language] \cap svc.misspelledWordsCache[language] = {}

----------------------------------------------------------------------------
(* Errors of the worker *)

(* C13: when the worker raises an error, every pending request is rejected   *)
(* with the worker's error and the client is not ready afterwards, so that   *)
(* the next request creates a new worker                                     *)
C13_AsStated ==
  [][last'.op = "onerror" =>
       /\ wm'.pendingRequests = <<>>
       /\ \A p \in DOMAIN promises :
            promises[p].state = "pending" =>
              promises'[p].state = "rejected" /\ promises'[p].value = "Worker error"
       /\ ~isReady([wm |-> wm'])]_vars

----------------------------------------------------------------------------
(* Correlation ids *)

(* the ids in use are those of requests made so far, and no two messages on  *)
(* their way to the worker have the same id                                  *)
C14_Ids ==
  /\ DOMAIN wm.pendingRequests \subseteq 1..wm.requestCounter
  /\ InFlight \subseteq 1..wm.requestCounter
  /\ \A i, j \in 1..Len(toWorker) : toWorker[i].requestId = toWorker[j].requestId => i = j
  /\ \A i, j \in 1..Len(fromWorker) :
       fromWorker[i].requestId = fromWorker[j].requestId => i = j

(* a new request has an id that no request had before *)
C14_Fresh ==
  /\ wm'.requestCounter >= wm.requestCounter
  /\ \A id \in DOMAIN wm'.pendingRequests \ DOMAIN wm.pendingRequests :
       id > wm.requestCounter /\ id \notin DOMAIN promises

(* a response settles the pending entry with its id and no other; a response *)
(* whose id is not pending changes nothing                                    *)
C14_Matched ==
  (Len(fromWorker) > 0 /\ fromWorker' = Tail(fromWorker)) =>
    LET e == Head(fromWorker)
    IN IF e.requestId \in DOMAIN wm.pendingRequests
       THEN /\ DOMAIN wm'.pendingRequests = DOMAIN wm.pendingRequests \ {e.requestId}
            /\ promises'[e.requestId].state =
                 IF e.type = "SUCCESS" THEN "resolved" ELSE "rejected"
            /\ \A p \in DOMAIN promises \ {e.requestId} : promises'[p] = promises[p]
       ELSE UNCHANGED <<wm, svc, ui, promises, toWorker>>

(* a promise that is settled stays as it is *)
C14_Once ==
  \A p \in DOMAIN promises : promises[p].state # "pending" => promises'[p] = promises[p]

(* C14: every request has an id of its own, a response settles the pending   *)
(* entry with its id, every promise is settled at most once, and a response  *)
(* whose id is not pending changes nothing                                   *)
C14_Correlation == []C14_Ids /\ [][C14_Fresh /\ C14_Matched /\ C14_Once]_vars

(* a request timed out and its response has since been handled, while        *)
(* another request was answered                                              *)
C14_Witness ==
  /\ last = Internal
  /\ \E id \in DOMAIN promises :
       /\ promises[id].state = "rejected"
       /\ promises[id].value = "Request timeout"
       /\ id \notin InFlight
  /\ \E id \in DOMAIN promises : promises[id].state = "resolved"

----------------------------------------------------------------------------
(* Timeouts *)

(* the promise of request id is rejected by its timeout in this step *)
TimesOut(id) ==
  /\ promises[id].state = "pending"
  /\ promises'[id].state = "rejected"
  /\ promises'[id].value = "Request timeout"

(* the timeout of a request removes its entry and rejects its promise; the   *)
(* other entries, their timers and their promises are left as they are       *)
C15_Single ==
  \A id \in DOMAIN promises :
    TimesOut(id) =>
      /\ id \in DOMAIN wm.pendingRequests
      /\ wm'.pendingRequests = Without(wm.pendingRequests, id)
      /\ wm'.timeouts = wm.timeouts \ {id}
      /\ \A p \in DOMAIN promises \ {id} : promises'[p] = promises[p]
      /\ UNCHANGED <<toWorker, fromWorker, worker>>

(* C15: a timer runs for exactly the pending requests; when it expires, that *)
(* request alone is removed and rejected with the timeout error, the others  *)
(* stay pending                                                              *)
C15_Timeout == [](wm.timeouts = DOMAIN wm.pendingRequests) /\ [][C15_Single]_vars

(* a request timed out while an older one is still pending *)
C15_Witness ==
  \E id \in DOMAIN promises :
    /\ promises[id].state = "rejected"
    /\ promises[id].value = "Request timeout"
    /\ \E other \in DOMAIN wm.pendingRequests :
         other < id /\ promises[other].state = "pending"

----------------------------------------------------------------------------
(* The generation counter *)

(* C16: the generation grows by one in every toggleSpellChecker and in every *)
(* setSpellCheckerLanguage call, and no other step changes it                *)
C16_Generation ==
  [][IF last'.op \in {"toggleSpellChecker", "setSpellCheckerLanguage"}
     THEN ext'.scanGeneration = ext.scanGeneration + 1
     ELSE ext'.scanGeneration = ext.scanGeneration]_vars

(* setSpellCheckerLanguage has bumped the generation of a checker that a     *)
(* dispatched toggleSpellChecker(false) had disabled                         *)
C16_Witness ==
  /\ last.op = "setSpellCheckerLanguage"
  /\ ext.scanGeneration = 2
  /\ history.disabledAt > 0
  /\ ext.enabled

----------------------------------------------------------------------------
(* setSpellCheckerLanguage after the switch *)

(* C17: when the generation has changed while setSpellCheckerLanguage(L)     *)
(* awaited the switch, the command sets no language and dispatches nothing;  *)
(* when it has not and the switch succeeded, the language is L and the       *)
(* rescan is requested: the plugin state says so and the scan is scheduled   *)
(* with the generation of the call and with L                                *)
C17_AfterSwitch ==
  \A s \in history.switched :
    /\ s.generation # s.currentGeneration => s.after = s.before
    /\ (s.generation = s.currentGeneration /\ s.ok) =>
         /\ s.after.language = s.language
         /\ s.after.plugin.shouldRescan
         /\ s.after.view.scanTimeout =
              <<[scanGeneration |-> s.currentGeneration, scanLanguage |-> s.language]>>

(* the switch to another language succeeded after the generation had changed *)
C17_Witness ==
  \E s \in history.switched :
    s.ok /\ s.generation # s.currentGeneration /\ s.language # s.before.language

----------------------------------------------------------------------------
(* the service when its worker request fails *)

CheckTypes == {"CHECK_WORD", "CHECK_WORDS", "GET_SUGGESTIONS"}

(* this step handles the SUCCESS response to the check request made for the *)
(* service promise p                                                        *)
Answers(p) ==
  /\ Len(fromWorker) > 0
  /\ fromWorker' = Tail(fromWorker)
  /\ LET e == Head(fromWorker)
     IN /\ e.type = "SUCCESS"
        /\ e.requestId \in DOMAIN wm.pendingRequests
        /\ LET r == wm.pendingRequests[e.requestId]
           IN /\ r.type \in CheckTypes
              /\ p = IF r.cont.k = "checkWord" THEN r.cont.promise
                     ELSE r.cont.up.promise

(* promise p is resolved with the answer of a failed request *)
FailOpen(p) ==
  LET q == promises'[p]
  IN /\ q.state = "resolved"
     /\ q.op = "checkWord" => q.value = "true"
     /\ q.op = "checkWords" => q.result = [w \in Range(q.word) |-> TRUE]
     /\ q.op = "getSuggestions" => q.result = <<>>

NothingCached ==
  /\ \A l \in LanguageCode :
       /\ svc'.correctWordsCache[l] \subseteq svc.correctWordsCache[l]
       /\ svc'.misspelledWordsCache[l] \subseteq svc.misspelledWordsCache[l]
  /\ DOMAIN svc'.suggestionsCache \subseteq DOMAIN svc.suggestionsCache

(* C18: no promise of the service is ever rejected; a promise of checkWord, *)
(* checkWords or getSuggestions that settles in a step other than the       *)
(* handling of the successful response to its check request resolves to     *)
(* true, to the map marking every word correct, or to the empty list; and   *)
(* a step that handles no such response adds nothing to any cache           *)
C18_FailOpen ==
  /\ [](\A p \in DOMAIN promises : promises[p].state # "rejected")
  /\ [][/\ \A p \in DOMAIN promises :
            (promises[p].state = "pending" /\ promises'[p].state # "pending"
               /\ ~Answers(p)) => FailOpen(p)
        /\ (\A p \in DOMAIN promises : ~Answers(p)) => NothingCached]_vars

(* cancelled requests: checkWords and getSuggestions of English words that  *)
(* the dictionary does not hold or has suggestions for resolved with the    *)
(* fallback, a checkWord resolved without the worker, and nothing is cached *)
C18_Witness ==
  /\ last.op \in {"cancelAll", "onerror"}
  /\ \E p \in DOMAIN promises :
       /\ promises[p].op = "checkWords" /\ promises[p].language = "en"
       /\ promises[p].state = "resolved"
       /\ promises[p].result = [w \in Range(promises[p].word) |-> TRUE]
  /\ \E p \in DOMAIN promises :
       /\ promises[p].op = "checkWord" /\ promises[p].state = "resolved"
       /\ ~promises[p].fromWorker /\ promises[p].value = "true"
  /\ CachedPairs = {}
  /\ DOMAIN svc.suggestionsCache = {}

----------------------------------------------------------------------------
(* the lists of getSuggestions *)

RECURSIVE Levenshtein(_, _)
Levenshtein(a, b) ==
  IF Len(a) = 0 THEN Len(b)
  ELSE IF Len(b) = 0 THEN Len(a)
  ELSE Min2(Levenshtein(Tail(a), b) + 1,
            Min2(Levenshtein(a, Tail(b)) + 1,
                 Levenshtein(Tail(a), Tail(b)) + (IF Head(a) = Head(b) THEN 0 ELSE 1)))

FirstAt(list, x) == CHOOSE i \in 1..Len(list) : list[i] = x /\ \A j \in 1..(i - 1) : list[j] # x

(* C19: a list that getSuggestions returns for the list of the engine has   *)
(* at most 5 entries, all of them suggestions of the engine and no two the  *)
(* same string, in the order of non-decreasing Levenshtein distance between *)
(* the lowercased word and the lowercased suggestion, and two entries at    *)
(* the same distance are in the order of their first places in the list of  *)
(* the engine                                                               *)
C19_Ranked ==
  \A r \in history.ranked :
    LET top == r.topSuggestions
        distance(x) == Levenshtein(r.word, toLowerCase(x))
    IN /\ Len(top) <= 5
       /\ Range(top) \subseteq Range(r.allSuggestions)
       /\ \A i, j \in 1..Len(top) :
            i < j =>
              /\ top[i] # top[j]
              /\ distance(top[i]) <= distance(top[j])
              /\ distance(top[i]) = distance(top[j]) =>
                    FirstAt(r.allSuggestions, top[i]) < FirstAt(r.allSuggestions, top[j])

(* six different suggestions for "Ab", the farthest first: five are         *)
(* returned, the nearest first, those as near in the order of the engine    *)
C19_Witness ==
  \E r \in history.ranked :
    /\ r.word = W_ab
    /\ r.allSuggestions = <<W_ba, <<"b">>, W_Ab, W_bb, W_ab, <<"a">>>>
    /\ r.topSuggestions = <<W_Ab, W_ab, <<"b">>, W_bb, <<"a">>>>

----------------------------------------------------------------------------
(* the cache of suggestions *)

(* C20: a getSuggestions for a language and normalized word for which a     *)
(* getSuggestions has resolved from a successful response of the worker     *)
(* since the cache was last cleared is answered from the cache, with no     *)
(* call of the worker                                                       *)
C20_AsStated ==
  (last.op = "getSuggestions" /\ <<last.language, last.word>> \in history.suggested)
    => last.value = "cached"

----------------------------------------------------------------------------
(* the decorations of a scan *)

(* the occurrences that checkWords reported misspelled *)
Reported(s) ==
  {w \in Range(s.words) : w.word \in DOMAIN s.checkResults /\ ~s.checkResults[w.word]}

(* the spans of the occurrences reported misspelled whose getSuggestions *)
(* returned a list that is not empty                                     *)
Flagged(s) ==
  {[from |-> w.from, to |-> w.to, word |-> w.word] :
     w \in {v \in Reported(s) :
              \E i \in DOMAIN s.suggestions :
                 s.misspelled[i] = v /\ Len(s.suggestions[i]) > 0}}

(* C21: the decoration set that scanDocument returns holds only spans of    *)
(* occurrences that were reported misspelled and have a suggestion list     *)
(* that is not empty, and it holds all of them unless the scan found the    *)
(* spell checker disabled, when it returns the empty set, which is never    *)
(* committed: a committed set holds exactly those spans; suggestions are    *)
(* asked for every occurrence reported misspelled                           *)
C21_Flagged ==
  \A s \in history.scanned :
    s.stage # "debounce" =>
      /\ s.found \subseteq Flagged(s)
      /\ s.enabled => s.found = Flagged(s)
      /\ s.outcome = "committed" => s.enabled /\ s.after = s.found
      /\ s.stage = "suggestions" => Range(s.misspelled) = Reported(s)

(* a committed scan of "ab aa Ab ": ab and aa were reported misspelled, aa  *)
(* has no suggestions, and only ab is decorated                             *)
C21_Witness ==
  \E s \in history.scanned :
    /\ s.stage = "suggestions" /\ s.outcome = "committed"
    /\ Len(s.misspelled) = 2
    /\ ~s.checkResults[W_aa] /\ s.checkResults[W_Ab]
    /\ \E i \in DOMAIN s.suggestions :
         s.misspelled[i].word = W_aa /\ s.suggestions[i] = <<>>
    /\ Cardinality(s.found) = 1
    /\ \E d \in s.found : d.word = W_ab

----------------------------------------------------------------------------
(* the debounce timers *)

(* the scans that start in this step *)
Started == DOMAIN scans' \ DOMAIN scans

(* a scan starts only when the pending timer fires, one scan for the timer, *)
(* with what the last scheduleScan captured, and no timer is pending then   *)
C22_OneScan ==
  Started # {} =>
    /\ Len(view.scanTimeout) = 1
    /\ view'.scanTimeout = <<>>
    /\ Cardinality(Started) = 1
    /\ \A id \in Started :
         /\ scans'[id].scanGeneration = view.scanTimeout[1].scanGeneration
         /\ scans'[id].scanLanguage = view.scanTimeout[1].scanLanguage

(* func is called only by the timer that is pending, once, with the         *)
(* arguments of the last call of the debounced function                     *)
C22_OneCall ==
  debounceState'.calls # debounceState.calls =>
    /\ Cardinality(debounceState.timers) = 1
    /\ debounceState'.timers = {}
    /\ debounceState'.calls = Append(debounceState.calls, debounceState.args)

(* C22: at most one scan timer is pending at any time, and at most one      *)
(* timer of a debounced function; however many times scheduleScan or the    *)
(* debounced function were called before it fires, the timer starts one     *)
(* scan, or calls the function once with the arguments of the last call     *)
C22_SingleTimer ==
  /\ [](Len(view.scanTimeout) <= 1 /\ Cardinality(debounceState.timers) <= 1)
  /\ [][C22_OneScan /\ C22_OneCall]_vars

(* the document was typed into twice while the timer of the initial scan    *)
(* was pending and one scan has started; the debounced function was called  *)
(* three times and its function once, with the last arguments               *)
C22_Witness ==
  /\ Len(view.doc) = Len(InitialDoc) + 2
  /\ Cardinality(DOMAIN scans) = 1
  /\ wm.requestCounter = 2
  /\ view.scanTimeout = <<>>
  /\ debounceState.counter = 3
  /\ debounceState.calls = <<2>>
  /\ debounceState.args = 2
  /\ debounceState.timers = {}

----------------------------------------------------------------------------
(* scans of a document that changes *)

(* C23: a scan that ends when the size of the document is not the size of   *)
(* the document it scanned commits nothing: the decorations of the plugin   *)
(* are after it what they were before it                                    *)
C23_SizeChanged ==
  \A s \in history.scanned :
    s.size # s.currentSize => s.outcome # "committed" /\ s.after = s.before

(* a scan of the current generation, with the spell checker enabled, had    *)
(* found a word to decorate and ended after a character was typed           *)
C23_Witness ==
  \E s \in history.scanned :
    /\ s.size # s.currentSize
    /\ s.scanGeneration = s.generation /\ s.enabled
    /\ s.stage = "suggestions"
    /\ s.found # s.before
    /\ s.outcome = "document changed"

----------------------------------------------------------------------------
(* document changes and the debounce timer *)

(* C24: a change of the document made while the spell checker is enabled    *)
(* and no timer is pending arms the timer if and only if it does not make   *)
(* the text longer or the text ends with a character that extractWords      *)
(* accepts as a trailing boundary; made while a timer is pending, it leaves *)
(* a timer pending                                                          *)
C24_AsStated ==
  [][(last'.op \in {"type", "delete"} /\ ext.enabled) =>
       /\ view.scanTimeout # <<>> => view'.scanTimeout # <<>>
       /\ view.scanTimeout = <<>> =>
            (view'.scanTimeout # <<>> <=>
               \/ Len(view'.doc) <= Len(view.doc)
               \/ IsBoundary(view'.doc[Len(view'.doc)]))]_vars

----------------------------------------------------------------------------
(* the case of a word and the caches *)

(* C25: the English dictionary accepts "Ab" and not "ab"; a checkWord for   *)
(* English that returns without the worker returns correct for "Ab" and     *)
(* incorrect for "ab", whatever was checked before                          *)
C25_AsStated ==
  (last.op = "checkWord" /\ last.language = "en" /\ last.value \in {"true", "false"}) =>
    /\ trim(history.asked) = W_Ab => last.value = "true"
    /\ trim(history.asked) = W_ab => last.value = "false"

----------------------------------------------------------------------------
(* checkWord: short words, trimming, and the answer of the engine *)

(* checkWord of a word that is shorter than 2 characters once trimmed       *)
(* returns correct, sends nothing and changes no cache; a longer word is    *)
(* sent trimmed                                                             *)
C26_Service ==
  last'.op = "checkWord" =>
    LET trimmed == trim(history'.asked)
    IN /\ Len(trimmed) < 2 =>
            /\ last'.value = "true" /\ last'.ret = 0
            /\ UNCHANGED <<wm, svc, ui, promises, toWorker>>
       /\ (Len(trimmed) >= 2 /\ last'.value = "sent") =>
            wm'.pendingRequests[wm'.requestCounter].cont.data = trimmed

(* the worker answers CHECK_WORD for a word of 2 characters or more with    *)
(* correct exactly when the dictionary accepts the word as it is written,   *)
(* or its lowercased form is another word and the dictionary accepts that   *)
C26_Engine ==
  (/\ Len(toWorker) > 0
   /\ toWorker' = Tail(toWorker)
   /\ Head(toWorker).type = "CHECK_WORD"
   /\ worker.currentLanguage # NoLanguage
   /\ Len(Head(toWorker).data) >= 2) =>
    LET word == Head(toWorker).data
        lowercase == toLowerCase(word)
        accepted == Dictionary(worker.currentLanguage)
    IN /\ word = trim(word)
       /\ fromWorker'[Len(fromWorker')].data =
            (word \in accepted \/ (lowercase # word /\ lowercase \in accepted))

(* C26: checkWord trims its input; a word shorter than 2 characters is      *)
(* correct without a request and without a change of the caches; for a      *)
(* longer word the engine answers correct if and only if it accepts the     *)
(* word in its original case, or the lowercased word differs and is         *)
(* accepted                                                                 *)
C26_CheckWord == [][C26_Service /\ C26_Engine]_vars

(* the German dictionary answered correct for "Ab", which it holds only as  *)
(* "ab", and a checkWord of "b" has just returned correct with nothing sent *)
C26_Witness ==
  /\ last.op = "checkWord" /\ history.asked = <<"b">> /\ last.value = "true"
  /\ worker.currentLanguage = "de"
  /\ W_Ab \notin Dictionary("de")
  /\ \E i \in 1..Len(fromWorker) :
       /\ fromWorker[i].type = "SUCCESS"
       /\ fromWorker[i].requestId \in DOMAIN wm.pendingRequests
       /\ wm.pendingRequests[fromWorker[i].requestId].type = "CHECK_WORD"
       /\ wm.pendingRequests[fromWorker[i].requestId].data = W_Ab
       /\ fromWorker[i].data = TRUE

----------------------------------------------------------------------------
(* replaceAllInstances *)

(* the word occurs in the document outside the code blocks, in any case *)
Occurs(doc, word) ==
  \E i, j \in 1..Len(doc) :
    /\ i <= j
    /\ \A k \in i..j : IsWordChar(doc[k])
    /\ i = 1 \/ ~IsWordChar(doc[i - 1])
    /\ j = Len(doc) \/ ~IsWordChar(doc[j + 1])
    /\ toLowerCase(SubSeq(doc, i, j)) = normalizeWord(word)
    /\ ~InCodeBlock(doc, i)

(* the replacements are made from the highest offset to the lowest, each    *)
(* of a range that findAllInstances reports for the original document and   *)
(* that still holds what the original document holds there, and every       *)
(* reported range is replaced                                               *)
Descending ==
  LET r == replaceState
      reported == findAllInstances(r.doc, r.word)
  IN /\ \A i, j \in 1..Len(r.steps) : i < j => r.steps[i].from > r.steps[j].from
     /\ {<<r.steps[i].from, r.steps[i].to>> : i \in 1..Len(r.steps)} =
          {<<reported[i].from, reported[i].to>> : i \in 1..Len(reported)}
     /\ \A i \in 1..Len(r.steps) :
          /\ r.steps[i].old = SubSeq(r.doc, r.steps[i].from + 1, r.steps[i].to)
          /\ toLowerCase(r.steps[i].old) = normalizeWord(r.word)

----------------------------------------------------------------------------
(* the requests one call of switchLanguage sends at most: the query before  *)
(* the load, the load, and the queries of the retry loop                    *)
RequestsOfSwitch == 2 + DICTIONARY_RETRY_COUNT

(* the promises that calls of switchLanguage can have *)
SwitchPromises == 1..(1 + RequestsOfSwitch * MaxSwitchCalls)

(* the response that handleMessage takes next answers a query of the retry  *)
(* loop of the call behind promise pid                                      *)
VerifyAnswered(pid) ==
  /\ last' = Internal
  /\ Len(fromWorker) > 0
  /\ fromWorker' = Tail(fromWorker)
  /\ Head(fromWorker).requestId \in DOMAIN wm.pendingRequests
  /\ LET cont == wm.pendingRequests[Head(fromWorker).requestId].cont
     IN cont.k = "switchVerify" /\ cont.up = Caller(pid)

(* the wait after the last query of the call behind promise pid is over *)
LastWaitOver(pid) ==
  \E timer \in dm.retryTimers \ dm'.retryTimers :
    timer.up = Caller(pid) /\ timer.retries = 1

C28_Counted ==
  \A pid \in DOMAIN history.queried : history.queried[pid] <= DICTIONARY_RETRY_COUNT

C28_Returns ==
  \A pid \in SwitchCalls :
    LET language == promises[pid].language
        returned == /\ promises'[pid].state = "resolved"
                    /\ dm'.currentLanguage = language
    IN promises[pid].state = "pending" =>
         /\ VerifyAnswered(pid) =>
              LET e == Head(fromWorker)
              IN IF e.type = "SUCCESS" /\ e.data = language
                 THEN returned /\ language \in dm'.loadedLanguages
                 ELSE promises'[pid].state = "pending"
         /\ LastWaitOver(pid) =>
              returned /\ history.queried[pid] = DICTIONARY_RETRY_COUNT
         /\ pid \in DOMAIN history.queried => promises'[pid].state # "rejected"
         /\ (pid \in DOMAIN history.queried /\ promises'[pid].state = "resolved") =>
              VerifyAnswered(pid) \/ LastWaitOver(pid)

----------------------------------------------------------------------------
(* terminate() *)

C29_Rejected ==
  (last'.op = "terminate" /\ isReady([wm |-> wm])) =>
    /\ wm'.pendingRequests = <<>>
    /\ wm'.timeouts = {}
    /\ \A p \in DOMAIN promises :
         IF p \in DOMAIN wm.pendingRequests
         THEN promises'[p].state = "rejected" /\ promises'[p].value = "Worker terminated"
         ELSE promises'[p] = promises[p]
    /\ ~isReady([wm |-> wm'])

C29_Fresh ==
  (~isReady([wm |-> wm]) /\ wm'.requestCounter > wm.requestCounter) =>
    /\ isReady([wm |-> wm'])
    /\ worker = NewWorker
    /\ fromWorker = <<>>
    /\ Len(toWorker') = 1 /\ toWorker'[1].requestId = wm'.requestCounter

(* C29: terminate() rejects every pending request with 'Worker terminated', *)
(* leaves no pending request and isReady() false; the request that follows  *)
(* is the first message of a new worker, which has no language and no       *)
(* message of the terminated one                                            *)
C29_Terminated ==
  /\ [](~isReady([wm |-> wm]) =>
         wm.pendingRequests = <<>> /\ toWorker = <<>> /\ fromWorker = <<>>)
  /\ [][C29_Rejected /\ C29_Fresh]_vars

(* a dictionary was loaded, terminate() rejected a pending request, and the *)
(* worker of the next request answered that it has no language              *)
C29_Witness ==
  /\ DOMAIN promises = 1..3
  /\ promises[1].op = "LOAD_DICTIONARY" /\ promises[1].state = "resolved"
  /\ promises[2].state = "rejected" /\ promises[2].value = "Worker terminated"
  /\ promises[3].op = "GET_CURRENT_LANGUAGE"
  /\ promises[3].state = "resolved" /\ promises[3].value = NoLanguage
  /\ isReady([wm |-> wm])

----------------------------------------------------------------------------
(* Loads of one language *)

(* the pending LOAD_DICTIONARY requests of a language *)
Loads(language) ==
  {id \in DOMAIN wm.pendingRequests :
     /\ wm.pendingRequests[id].type = "LOAD_DICTIONARY"
     /\ wm.pendingRequests[id].data = language}

C30_Single == \A language \in LanguageCode : Cardinality(Loads(language)) <= 1

(* a language is marked loaded when the response to its load, or to a query *)
(* that follows its load in switchLanguage, is a success                    *)
C30_Loaded ==
  \A language \in dm'.loadedLanguages \ dm.loadedLanguages :
    /\ last' = Internal
    /\ Len(fromWorker) > 0
    /\ Head(fromWorker).type = "SUCCESS"
    /\ Head(fromWorker).requestId \in DOMAIN wm.pendingRequests
    /\ LET pending == wm.pendingRequests[Head(fromWorker).requestId]
       IN \/ pending.type = "LOAD_DICTIONARY" /\ pending.data = language
          \/ pending.cont.k = "switchVerify" /\ pending.cont.language = language

(* a load that failed leaves no loading promise, so that a later call loads *)
C30_Retried ==
  (last' = Internal /\ Len(fromWorker) > 0 /\ fromWorker' = Tail(fromWorker)
     /\ Head(fromWorker).type = "ERROR"
     /\ Head(fromWorker).requestId \in DOMAIN wm.pendingRequests) =>
    LET pending == wm.pendingRequests[Head(fromWorker).requestId]
    IN pending.cont.k = "loadDictionary" => pending.data \notin dm'.loadingPromises

(* C30: at most one LOAD_DICTIONARY request of a language is pending at any *)
(* time, whether its callers used loadDictionary or switchLanguage; the     *)
(* language is marked loaded only after a load succeeded, and a failed load *)
(* lets a later call load again                                             *)
C30_AsStated ==
  /\ []C30_Single
  /\ [][C30_Loaded /\ C30_Retried]_vars

----------------------------------------------------------------------------
(* Word extraction *)

(* every text node of the document, with its position and its block *)
RECURSIVE TextRuns(_, _)
TextRuns(blocks, pos) ==
  IF blocks = <<>> THEN <<>>
  ELSE LET block == Head(blocks)
           runs == inlineNodes(block.content, pos + 1)
       IN [n \in 1..Len(runs) |->
             [text |-> runs[n].node.text, marks |-> runs[n].node.marks,
              pos |-> runs[n].pos, block |-> block.type]]
          \o TextRuns(Tail(blocks), pos + contentSize(block.content) + 2)

(* a span of characters of words, apostrophes and hyphens that starts and  *)
(* ends with a character of a word                                         *)
Spans(text) ==
  {span \in (1..Len(text)) \X (1..Len(text)) :
     /\ span[1] <= span[2]
     /\ \A k \in span[1]..span[2] : TokenChar(text[k])
     /\ WordChar(text[span[1]]) /\ WordChar(text[span[2]])}

(* the tokens of a text: the spans that no other span contains *)
Tokens(text) ==
  {span \in Spans(text) :
     \A other \in Spans(text) :
       (other[1] <= span[1] /\ span[2] <= other[2]) => other = span}

(* the token passes the filter and a boundary character follows it in its  *)
(* text node                                                               *)
Checkable(text, span) ==
  /\ span[2] - span[1] + 1 >= MIN_WORD_LENGTH
  /\ \E k \in span[1]..span[2] : ~IsDigit(text[k])
  /\ span[2] < Len(text)
  /\ IsBoundary(text[span[2] + 1])

(* the word spans of the checkable tokens of text nodes *)
CheckableWords(runs) ==
  UNION {{[word |-> SubSeq(runs[n].text, span[1], span[2]),
           from |-> runs[n].pos + span[1] - 1,
           to |-> runs[n].pos + span[2]] :
            span \in {t \in Tokens(runs[n].text) : Checkable(runs[n].text, t)}} :
         n \in 1..Len(runs)}

(* a text node inside a code block or with the code mark *)
InCode(run) == run.block = "codeBlock" \/ "code" \in run.marks

(* C31: extractWords returns, in document order and in their original case, *)
(* exactly the tokens that pass the length and the non-numeric filter and   *)
(* that a boundary character follows in their own text node; a token at the *)
(* end of its text node is not returned                                     *)
C31_Extracted ==
  extractState.phase = "done" =>
    LET runs == TextRuns(extractState.doc, 0)
        words == extractState.words
    IN /\ Range(words) \subseteq CheckableWords(runs)
       /\ CheckableWords(SelectSeq(runs, LAMBDA run : ~InCode(run))) \subseteq Range(words)
       /\ \A i, j \in 1..Len(words) : i < j => words[i].to <= words[j].from
       /\ \A i \in 1..Len(words), n \in 1..Len(runs) :
            words[i].to # runs[n].pos + Len(runs[n].text)

(* "aA" ends its text node and is not returned, although the next text node *)
(* starts with a space; the "aa" of that node is returned                  *)
C31_Witness ==
  /\ extractState.phase = "done"
  /\ extractState.doc =
       <<Block("paragraph", <<Text(<<"a", "A">>, {"bold"}), Text(<<" ", "a", "a", " ">>, {})>>)>>
  /\ extractState.words = <<[word |-> W_aa, from |-> 4, to |-> 6]>>

(* the text node that holds a word span *)
RunsOf(span) ==
  LET runs == TextRuns(extractState.doc, 0)
  IN {runs[n] : n \in {k \in 1..Len(runs) :
                         /\ runs[k].pos <= span.from
                         /\ span.to <= runs[k].pos + Len(runs[k].text)}}

(* C32: no word span that extractWords or findAllInstances returns lies in  *)
(* a code block or in text that has the code mark                          *)
C32_AsStated ==
  extractState.phase = "done" =>
    \A span \in Range(extractState.words) \cup Range(extractState.instances) :
      \A run \in RunsOf(span) : ~InCode(run)

----------------------------------------------------------------------------
(* SpellCheckerUI *)

(* C33: when handleSpellcheckerChange finishes, the value it displays is    *)
(* the state of the extension: "off" when disabled, the language of the     *)
(* extension otherwise, also when the switch failed or was aborted          *)
C33_AsStated ==
  [][(ui.isLoading /\ ~ui'.isLoading) =>
       ui'.localValue = ActualValue([ext |-> ext'])]_vars


(* C34: the pending-check entry of a language:word key is removed only by    *)
(* clearCache or when the check that registered it resolves; in particular a *)
(* checkWord whose request was issued before clearCache never removes the    *)
(* entry that a checkWord for the same key registered after the clear, so    *)
(* further calls for the key stay deduplicated onto the newer check.         *)
C34_AsStated ==
  [][\A key \in DOMAIN svc.pendingChecks :
       \/ key \in DOMAIN svc'.pendingChecks
       \/ last'.op = "clearCache"
       \/ promises'[svc.pendingChecks[key]].state = "resolved"]_vars


(* no request is pending or in flight, no dictionary is being fetched or     *)
(* loaded and no retry of switchLanguage is waiting                          *)
Quiescent ==
  /\ wm.pendingRequests = <<>>
  /\ toWorker = <<>>
  /\ fromWorker = <<>>
  /\ worker.fetches = {}
  /\ dm.loadingPromises = {}
  /\ dm.retryTimers = {}

(* C35: whenever spell checking is enabled and no toggle, no language switch *)
(* and no dictionary load is in progress, the language in the extension's    *)
(* storage is the language of the dictionary that the worker has loaded      *)
(* (stated for a worker that has loaded one).                                *)
C35_AsStated ==
  (ext.enabled /\ Quiescent /\ worker.currentLanguage # NoLanguage)
    => ext.language = worker.currentLanguage


(* C36: when a scan is aborted because the size of the document changed and  *)
(* no other scan is running, a scan is scheduled: the timer is pending.      *)
(* Where only the user's edits arm the timer and the user stops editing, a   *)
(* timer that is not pending then is never armed.                            *)
C36_AsStated ==
  [][(scans' = <<>> /\ \E s \in history'.scanned : s.outcome = "document changed")
       => view'.scanTimeout # <<>>]_vars


(* the completed words of the document that the loaded dictionary rejects    *)
(* and for which it has suggestions                                          *)
Misspelled ==
  {w \in Range(extractWords(view.doc)) :
     /\ ~worker_checkWord(worker.currentLanguage, w.word)
     /\ Len(worker_getSuggestions(worker.currentLanguage, w.word)) > 0}

(* the dictionary of the extension's language is loaded and nothing is left  *)
(* to happen unless the user acts: no request, no load, no scan, no timer    *)
AtRest ==
  /\ ext.enabled
  /\ worker.currentLanguage = ext.language
  /\ Quiescent
  /\ scans = <<>>
  /\ view.scanTimeout = <<>>

(* C37: once spell checking is enabled, the dictionary is loaded and the     *)
(* document has stopped changing, every completed misspelled word that has   *)
(* suggestions is decorated when the editor has come to rest.                *)
C37_AsStated ==
  AtRest => \A w \in Misspelled :
              \E d \in plugin.decorations : d.from = w.from /\ d.to = w.to


(* C38: of the scans of one generation, one that started earlier never       *)
(* commits after one that started later has committed: the scans that        *)
(* commit do so in the order in which they started (a scan's id grows with   *)
(* the time of its start), so the decorations that remain are those of the   *)
(* scan started last.  A commit out of that order that leaves the           *)
(* decorations as they were is not counted.                                  *)
C38_AsStated ==
  [][\/ history'.committed.id >= history.committed.id
     \/ plugin'.decorations = plugin.decorations]_vars

(* C39: every decoration committed by a scan covers, in the document that is *)
(* current when it is committed, the text of the word that the scan checked. *)
C39_AsStated ==
  [][\A s \in history'.scanned :
       s.outcome = "committed" =>
         \A d \in s.found :
           /\ d.to - 1 <= Len(view'.doc)
           /\ SubSeq(view'.doc, d.from, d.to - 1) = d.word]_vars


(* C40: toggleSpellChecker invoked without a dispatch function changes       *)
(* nothing: the enabled flag, the generation, the caches, the pending        *)
(* requests and the decorations are as they were.                            *)
C40_AsStated ==
  [][(last'.op = "toggleSpellChecker" /\ last'.ret = 0) =>
       /\ ext'.enabled = ext.enabled
       /\ ext'.scanGeneration = ext.scanGeneration
       /\ svc' = svc
       /\ wm'.pendingRequests = wm.pendingRequests
       /\ plugin'.decorations = plugin.decorations]_vars

====
